---- MODULE Spec2Model ----
(***************************************************************************)
(* Server discovery and liveness probing of the MBII community updater     *)
(* (src/mbupdater.py): ping_server, scrape_jkhub_servers' result shape and *)
(* ServerBrowser's refresh cycle (fetch_servers, _fetch_servers_thread,    *)
(* display_servers), with the ThreadPoolExecutor the cycle probes through  *)
(* and the Tk event queue its results come back on; join_selected_server   *)
(* with its content dialogs; and GitHubReleaseManager's repository list,   *)
(* release fetches and rate-limit handling.                                *)
(*                                                                         *)
(* Python strings are sequences of one-character strings, so that parsing  *)
(* and formatting are computed character by character.                     *)
(***************************************************************************)
EXTENDS Integers, Sequences, FiniteSets, TLC

(***************************************************************************)
(* Bounds of the model.                                                    *)
(***************************************************************************)
\* the longest page the directory returns under Spec and SpecCycle
MaxServers == 2
\* refresh threads that can exist at once (one cycle plus finishing threads)
MaxThreads == 2
\* the length of the page of unreachable servers of SpecPool
PoolServers == 21
\* release-list fetches that can be in flight at the same time
MaxFetches == 2
\* the user clicks in the manager only while fewer callbacks than this wait
MaxCallbacks == 1

(***************************************************************************)
(* Program constants.                                                      *)
(***************************************************************************)
MAX_PING_THREADS == 20

(***************************************************************************)
(* Strings.                                                                *)
(***************************************************************************)
Digits == <<"0", "1", "2", "3", "4", "5", "6", "7", "8", "9">>

IsDigit(c) == \E d \in 1..10 : Digits[d] = c

DigitVal(c) == (CHOOSE d \in 1..10 : Digits[d] = c) - 1

\* the whitespace int() and str.split() skip
IsSpace(c) == c \in {" ", "\t", "\n", "\r"}

RECURSIVE LStrip(_)
LStrip(s) ==
    IF Len(s) > 0 /\ IsSpace(s[1]) THEN LStrip(Tail(s)) ELSE s

RECURSIVE RStrip(_)
RStrip(s) ==
    IF Len(s) > 0 /\ IsSpace(s[Len(s)]) THEN RStrip(SubSeq(s, 1, Len(s) - 1)) ELSE s

Strip(s) == RStrip(LStrip(s))

\* str(n) for an integer n
RECURSIVE NatToStr(_)
NatToStr(n) ==
    IF n < 10 THEN <<Digits[n + 1]>>
    ELSE NatToStr(n \div 10) \o <<Digits[(n % 10) + 1]>>

IntToStr(n) == IF n < 0 THEN <<"-">> \o NatToStr(-n) ELSE NatToStr(n)

\* the value of a run of digits and single underscores, left to right
RECURSIVE DigitsValue(_, _)
DigitsValue(s, acc) ==
    IF Len(s) = 0 THEN acc
    ELSE IF s[1] = "_" THEN DigitsValue(Tail(s), acc)
    ELSE DigitsValue(Tail(s), acc * 10 + DigitVal(s[1]))

\* int(s) in base 10: surrounding whitespace, one optional sign, digits with
\* single underscores between them; anything else is a ValueError (ok = FALSE)
PyInt(s) ==
    LET t == Strip(s)
        signed == Len(t) > 0 /\ t[1] \in {"+", "-"}
        body == IF signed THEN Tail(t) ELSE t
        wellFormed ==
            /\ Len(body) > 0
            /\ IsDigit(body[1])
            /\ IsDigit(body[Len(body)])
            /\ \A k \in 1..Len(body) : IsDigit(body[k]) \/ body[k] = "_"
            /\ \A k \in 1..(Len(body) - 1) : ~(body[k] = "_" /\ body[k + 1] = "_")
    IN  IF ~wellFormed THEN [ok |-> FALSE, val |-> 0]
        ELSE [ok |-> TRUE,
              val |-> IF signed /\ t[1] = "-" THEN -DigitsValue(body, 0)
                      ELSE DigitsValue(body, 0)]

\* whether addr holds a colon
HasColon(addr) == \E k \in 1..Len(addr) : addr[k] = ":"

\* addr.rsplit on the last colon, of an address that holds one
RSplitColon(addr) ==
    LET k == CHOOSE j \in 1..Len(addr) :
                 addr[j] = ":" /\ \A m \in (j + 1)..Len(addr) : addr[m] # ":"
    IN  [ip |-> SubSeq(addr, 1, k - 1), port_str |-> SubSeq(addr, k + 1, Len(addr))]

(***************************************************************************)
(* The ping statuses a record carries.                                     *)
(***************************************************************************)
Pinging == <<"P", "i", "n", "g", "i", "n", "g", ".", ".", ".">>
ParseErrorStatus == <<"P", "a", "r", "s", "e", " ", "E", "r", "r", "o", "r">>
InvalidAddrStatus == <<"I", "n", "v", "a", "l", "i", "d", " ", "A", "d", "d", "r">>
ErrorStatus == <<"E", "r", "r", "o", "r">>
TimeoutStatus == <<"T", "i", "m", "e", "o", "u", "t">>

\* AddrDecision with the else branch of the host-and-port test missing: an
\* address without a colon gets no status
AddrDecisionSkipsNoColon(addr) ==
    IF ~HasColon(addr) THEN [act |-> "skip", ip |-> <<>>, port |-> 0]
    ELSE LET parts == RSplitColon(addr)
             p == PyInt(parts.port_str)
         IN  IF ~p.ok THEN [act |-> "parse_error", ip |-> <<>>, port |-> 0]
             ELSE IF Len(parts.ip) > 0 /\ p.val # 0
                  THEN [act |-> "submit", ip |-> parts.ip, port |-> p.val]
                  ELSE [act |-> "invalid", ip |-> <<>>, port |-> 0]

\* AddrDecision without the except ValueError clause
AddrDecisionUncaught(addr) ==
    IF ~HasColon(addr) THEN [act |-> "invalid", ip |-> <<>>, port |-> 0]
    ELSE LET parts == RSplitColon(addr)
             p == PyInt(parts.port_str)
         IN  IF ~p.ok THEN [act |-> "raise", ip |-> <<>>, port |-> 0]
             ELSE IF Len(parts.ip) > 0 /\ p.val # 0
                  THEN [act |-> "submit", ip |-> parts.ip, port |-> p.val]
                  ELSE [act |-> "invalid", ip |-> <<>>, port |-> 0]

\* AddrDecision testing the port alone before it submits
AddrDecisionPortOnly(addr) ==
    IF ~HasColon(addr) THEN [act |-> "invalid", ip |-> <<>>, port |-> 0]
    ELSE LET parts == RSplitColon(addr)
             p == PyInt(parts.port_str)
         IN  IF ~p.ok THEN [act |-> "parse_error", ip |-> <<>>, port |-> 0]
             ELSE IF p.val # 0
                  THEN [act |-> "submit", ip |-> parts.ip, port |-> p.val]
                  ELSE [act |-> "invalid", ip |-> <<>>, port |-> 0]

\* what the submission loop does with one address
\*   act: "parse_error" (ValueError caught), "invalid" (no host or no port),
\*        "submit" (ping_server(ip, port) goes to the pool),
\*        "raise" (an exception leaves the loop: the code has no such case)
AddrDecision(addr) ==
    IF ~HasColon(addr) THEN [act |-> "invalid", ip |-> <<>>, port |-> 0]
    ELSE LET parts == RSplitColon(addr)
             p == PyInt(parts.port_str)
         IN  IF ~p.ok THEN [act |-> "parse_error", ip |-> <<>>, port |-> 0]
             ELSE IF Len(parts.ip) > 0 /\ p.val # 0
                  THEN [act |-> "submit", ip |-> parts.ip, port |-> p.val]
                  ELSE [act |-> "invalid", ip |-> <<>>, port |-> 0]

(***************************************************************************)
(* ping_server.                                                            *)
(***************************************************************************)
\* a query packet without its final newline
QueryPacketNoNewline == <<255, 255, 255, 255, 103, 101, 116, 115, 116, 97, 116, 117, 115>>

\* QUERY_PACKET, byte by byte: four 0xFF, the ASCII of getstatus, a newline
QUERY_PACKET == <<255, 255, 255, 255, 103, 101, 116, 115, 116, 97, 116, 117, 115, 10>>

\* no call of ping_server under way
ProbeIdle ==
    [pc |-> "idle", ip |-> <<>>, port |-> 0, sock |-> "none", sent |-> <<>>,
     dest |-> <<>>, start_time |-> 0, end_time |-> 0, ev |-> "none", ret |-> 0]

\* round() of a number of microseconds to whole milliseconds, ties to even
RoundMs(us) ==
    LET q == us \div 1000
        r == us % 1000
    IN  IF r < 500 THEN q
        ELSE IF r > 500 THEN q + 1
        ELSE IF q % 2 = 0 THEN q ELSE q + 1

\* what the network does to one probe: a response after elapsed_us, no
\* response within the timeout, or a socket error
NetResponse(us) == [kind |-> "response", elapsed_us |-> us]
NetTimeout == [kind |-> "timeout", elapsed_us |-> 0]
NetOSError == [kind |-> "oserror", elapsed_us |-> 0]

\* an exception raised in the worker outside ping_server's own handlers
NetFault == [kind |-> "fault", elapsed_us |-> 0]

\* a ping_server with one sentinel for every failure
ping_serverTimeoutAsError(ip, port, ev) ==
    IF port < 0 \/ port > 65535 THEN -1
    ELSE IF ev.kind = "response" THEN RoundMs(ev.elapsed_us)
    ELSE -1

\* the integer ping_server(ip, port) returns when the network does ev; sendto
\* raises OverflowError for a port outside 0..65535 before anything is sent
ping_server(ip, port, ev) ==
    IF port < 0 \/ port > 65535 THEN -1
    ELSE IF ev.kind = "response" THEN RoundMs(ev.elapsed_us)
    ELSE IF ev.kind = "timeout" THEN 999
    ELSE -1

\* how the future of ping_server(ip, port) completes when the network does ev
FutureOutcome(ip, port, ev) ==
    IF ev.kind = "fault" THEN [raised |-> TRUE, value |-> 0]
    ELSE [raised |-> FALSE, value |-> ping_server(ip, port, ev)]

\* PingStatusOf with an except clause that only logs
PingStatusOfLogsOnly(outcome) ==
    IF outcome.raised THEN Pinging
    ELSE IF outcome.value = -1 THEN ErrorStatus
    ELSE IF outcome.value = 999 THEN TimeoutStatus
    ELSE IntToStr(outcome.value)

\* the status the collector writes for a future's outcome: a returned
\* integer, or an exception raised by the task
PingStatusOf(outcome) ==
    IF outcome.raised THEN ErrorStatus
    ELSE IF outcome.value = -1 THEN ErrorStatus
    ELSE IF outcome.value = 999 THEN TimeoutStatus
    ELSE IntToStr(outcome.value)

(***************************************************************************)
(* The view: _sanitize_string, the mod filter and sort_column.             *)
(***************************************************************************)
\* the grave accent (code 96)
GRAVE == "grave"

\* the printable ASCII characters in code order, from space (32) to ~ (126)
Ascii ==
    <<" ", "!", "\"", "#", "$", "%", "&", "'", "(", ")", "*", "+", ",", "-", ".", "/",
      "0", "1", "2", "3", "4", "5", "6", "7", "8", "9", ":", ";", "<", "=", ">", "?",
      "@", "A", "B", "C", "D", "E", "F", "G", "H", "I", "J", "K", "L", "M", "N", "O",
      "P", "Q", "R", "S", "T", "U", "V", "W", "X", "Y", "Z", "[", "\\", "]", "^", "_",
      GRAVE, "a", "b", "c", "d", "e", "f", "g", "h", "i", "j", "k", "l", "m", "n", "o",
      "p", "q", "r", "s", "t", "u", "v", "w", "x", "y", "z", "{", "|", "}", "~">>

\* the no-break space and the em space, the two characters _sanitize_string
\* turns into a space
NBSP == "nbsp"
EMSP == "emsp"

\* the code points of the printable ASCII characters
AsciiCode ==
    [c \in {Ascii[k] : k \in 1..Len(Ascii)} |->
        31 + (CHOOSE k \in 1..Len(Ascii) : Ascii[k] = c)]

\* the code point of a character
CharCode(c) ==
    IF c \in DOMAIN AsciiCode THEN AsciiCode[c]
    ELSE IF c = NBSP THEN 160
    ELSE IF c = EMSP THEN 8195
    ELSE IF c = "\t" THEN 9
    ELSE IF c = "\n" THEN 10
    ELSE IF c = "\r" THEN 13
    ELSE 65533

\* a case swap in place of str.lower()
LowerCharSwapsCase(c) ==
    LET n == CharCode(c)
    IN  IF n >= 65 /\ n <= 90 THEN Ascii[n + 32 - 31]
        ELSE IF n >= 97 /\ n <= 122 THEN Ascii[n - 32 - 31]
        ELSE c

\* str.lower() on one character
LowerChar(c) ==
    LET n == CharCode(c)
    IN  IF n >= 65 /\ n <= 90 THEN Ascii[n + 32 - 31] ELSE c

Lower(s) == [k \in 1..Len(s) |-> LowerChar(s[k])]

\* re.sub of every character outside a-z, 0-9 and space by nothing
RECURSIVE KeepAlnumSpace(_)
KeepAlnumSpace(s) ==
    IF Len(s) = 0 THEN <<>>
    ELSE LET n == CharCode(s[1])
             keep == \/ (n >= 97 /\ n <= 122)
                     \/ (n >= 48 /\ n <= 57)
                     \/ n = 32
         IN  IF keep THEN <<s[1]>> \o KeepAlnumSpace(Tail(s))
             ELSE KeepAlnumSpace(Tail(s))

\* text.split() joined by single spaces
RECURSIVE JoinWords(_, _)
JoinWords(s, pendingSpace) ==
    IF Len(s) = 0 THEN <<>>
    ELSE IF IsSpace(s[1]) THEN JoinWords(Tail(s), TRUE)
    ELSE (IF pendingSpace THEN <<" ">> ELSE <<>>) \o <<s[1]>> \o JoinWords(Tail(s), FALSE)

_sanitize_string(text) ==
    LET lowered == Lower(text)
        spaced == [k \in 1..Len(lowered) |->
                      IF lowered[k] \in {NBSP, EMSP} THEN " " ELSE lowered[k]]
        kept == KeepAlnumSpace(spaced)
    IN  Strip(JoinWords(LStrip(kept), FALSE))

\* sub in text
Contains(text, sub) ==
    \E k \in 0..(Len(text) - Len(sub)) : SubSeq(text, k + 1, k + Len(sub)) = sub

\* self.mod_name_map.get(mod_filter, [])
mod_name_map(key) ==
    IF key = "Movie Battles II"
    THEN << <<"m", "o", "v", "i", "e", " ", "b", "a", "t", "t", "l", "e", "s">>,
            <<"m", "o", "v", "i", "e", "b", "a", "t", "t", "l", "e", "s">>,
            <<"M", "o", "v", "i", "e", " ", "B", "a", "t", "t", "l", "e", "s">>,
            <<"m", "b", "2">>,
            <<"m", "b", "i", "i">> >>
    ELSE IF key = "basejk"
    THEN << <<"b", "a", "s", "e", "j", "k">>,
            <<"b", "a", "s", "e", "j", "k", "a">>,
            <<"b", "a", "s", "e">> >>
    ELSE IF key = "OpenJK"
    THEN << <<"o", "p", "e", "n", "j", "k">>, <<"o", "j", "k">> >>
    ELSE IF key = "All Mods"
    THEN << <<>> >>
    ELSE <<>>

\* a filter that wants the sanitized mod field to equal an alias
ModMatchesExact(server, filter) ==
    \/ filter = "All Mods"
    \/ \E a \in 1..Len(mod_name_map(filter)) :
          _sanitize_string(server.mod) = _sanitize_string(mod_name_map(filter)[a])

\* whether display_servers keeps a server under the mod filter
ModMatches(server, filter) ==
    \/ filter = "All Mods"
    \/ \E a \in 1..Len(mod_name_map(filter)) :
          LET sanitized_filter == _sanitize_string(mod_name_map(filter)[a])
          IN  /\ Len(sanitized_filter) > 0
              /\ Contains(_sanitize_string(server.mod), sanitized_filter)

\* filtered_servers of display_servers
RECURSIVE FilterServers(_, _)
FilterServers(list, filter) ==
    IF Len(list) = 0 THEN <<>>
    ELSE (IF ModMatches(list[1], filter) THEN <<list[1]>> ELSE <<>>)
         \o FilterServers(Tail(list), filter)

\* the row display_servers inserts for the i-th filtered server (iid server_i)
TreeRow(i, server) ==
    [iid |-> i,
     Name |-> server.hostname,
     Address |-> server.addr,
     Players |-> server.clients,
     Password |-> IF server.passworded THEN <<"lock">> ELSE <<>>,
     Mod |-> server.mod,
     Ping |-> server.ping]

\* the digits of value, joined
RECURSIVE DigitsOf(_)
DigitsOf(s) ==
    IF Len(s) = 0 THEN <<>>
    ELSE (IF IsDigit(s[1]) THEN <<s[1]>> ELSE <<>>) \o DigitsOf(Tail(s))

\* sort_key of a numeric column: the integer of the cell's digits, or
\* sys.maxsize (top = TRUE) for a cell without digits
NumericKey(value) ==
    LET d == DigitsOf(value)
    IN  IF Len(d) = 0 THEN [top |-> TRUE, n |-> 0]
        ELSE [top |-> FALSE, n |-> DigitsValue(d, 0)]

NumericLess(a, b) ==
    LET ka == NumericKey(a)
        kb == NumericKey(b)
    IN  IF ka.top THEN FALSE
        ELSE IF kb.top THEN TRUE
        ELSE ka.n < kb.n

\* s < t for two strings, by code point
RECURSIVE StrLess(_, _)
StrLess(s, t) ==
    IF Len(t) = 0 THEN FALSE
    ELSE IF Len(s) = 0 THEN TRUE
    ELSE IF CharCode(s[1]) # CharCode(t[1]) THEN CharCode(s[1]) < CharCode(t[1])
    ELSE StrLess(Tail(s), Tail(t))

\* the cell of a row in a column
Cell(row, col) ==
    IF col = "Name" THEN row.Name
    ELSE IF col = "Address" THEN row.Address
    ELSE IF col = "Players" THEN row.Players
    ELSE IF col = "Mod" THEN row.Mod
    ELSE IF col = "Ping" THEN row.Ping
    ELSE row.Password

\* a comparison that also puts a cell before a cell of the same key
KeyLessTiesFirst(col, a, b) ==
    IF col \in {"Ping", "Players"} THEN ~NumericLess(b, a)
    ELSE ~StrLess(Lower(b), Lower(a))

\* whether the key of cell a sorts strictly before the key of cell b
KeyLess(col, a, b) ==
    IF col \in {"Ping", "Players"} THEN NumericLess(a, b)
    ELSE StrLess(Lower(a), Lower(b))

\* list.sort(key, reverse): stable in both directions
RECURSIVE InsertRow(_, _, _, _)
InsertRow(sorted, row, col, reverse) ==
    IF Len(sorted) = 0 THEN <<row>>
    ELSE LET first == sorted[1]
             before == IF reverse
                       THEN KeyLess(col, Cell(first, col), Cell(row, col))
                       ELSE KeyLess(col, Cell(row, col), Cell(first, col))
         IN  IF before THEN <<row>> \o sorted
             ELSE <<first>> \o InsertRow(Tail(sorted), row, col, reverse)

RECURSIVE SortRows(_, _, _, _)
SortRows(done, rest, col, reverse) ==
    IF Len(rest) = 0 THEN done
    ELSE SortRows(InsertRow(done, rest[1], col, reverse), Tail(rest), col, reverse)

\* the tree's rows after sort_column(col, reverse)
sort_column(rows, col, reverse) == SortRows(<<>>, rows, col, reverse)

\* the tree's rows after display_servers: the filtered servers, sorted by
\* self.sort_col (Players) in direction self.sort_dir (True: descending)
display_servers(list, filter) ==
    LET filtered == FilterServers(list, filter)
        rows == [i \in 1..Len(filtered) |-> TreeRow(i - 1, filtered[i])]
    IN  IF Len(filtered) > 0 THEN sort_column(rows, "Players", TRUE) ELSE rows

\* a display that keeps only the filtered records in self.servers
CatalogFilteredInPlace(list, filter) == FilterServers(list, filter)

\* self.servers after display_servers: the filter builds a new list
\* (filtered_servers) and the rows are sorted in the tree, so the catalog
\* is the list it was
CatalogAfterDisplay(list, filter) == list

\* the columns of the tree that carry a sorting command (setup_sorting)
Columns == {"Name", "Address", "Players", "Mod", "Ping"}

\* the heading commands setup_sorting installs: sort_column(c, False)
InitialHeadings == [c \in Columns |-> FALSE]

\* sort_column(col, reverse) re-binds the heading of col to
\* sort_column(col, not reverse)
HeadingsAfterSort(h, col, reverse) == [h EXCEPT ![col] = ~reverse]

\* the heading commands after display_servers, which sorts by Players,
\* descending, when it shows at least one row
HeadingsAfterDisplay(h, list, filter) ==
    IF Len(FilterServers(list, filter)) > 0
    THEN HeadingsAfterSort(h, "Players", TRUE)
    ELSE h

(***************************************************************************)
(* The servers the directory page can list.                                *)
(***************************************************************************)
\* a row of the scraped table, as scrape_jkhub_servers builds it
ServerData(hostname, addr, clients, mod, passworded) ==
    [hostname |-> hostname, addr |-> addr, clients |-> clients, mod |-> mod,
     ping |-> Pinging, passworded |-> passworded]

\* host h, port 8
AddrValid == <<"h", ":", "8">>
\* no colon at all, as in not-an-address
AddrNoColon == <<"n", "o", "t", "-", "a", "n", "-", "a", "d", "d", "r">>
AddrEmptyPort == <<"h", ":">>
AddrEmptyHost == <<":", "8">>
AddrAlphaPort == <<"h", ":", "x">>
AddrPortZero == <<"h", ":", "0">>
AddrPortNegative == <<"h", ":", "-", "1">>
AddrPortTooBig == <<"h", ":", "7", "0", "0", "0", "0">>
AddrTwoColons == <<"a", ":", "b", ":", "9">>
AddrOnlyColon == <<":">>
AddrEmpty == <<>>

AddrSamples ==
    {AddrValid, AddrNoColon, AddrEmptyPort, AddrEmptyHost, AddrAlphaPort,
     AddrPortZero, AddrPortNegative, AddrPortTooBig, AddrTwoColons,
     AddrOnlyColon, AddrEmpty}

\* one listed server for every sample address
WideDirectory ==
    {ServerData(<<"S">>, a, <<"3", "/", "3", "2">>, <<"m", "b", "2">>, FALSE) :
        a \in AddrSamples}

\* a Movie Battles II server with a good address and an OpenJK server with a
\* bad one
SmallDirectory ==
    {ServerData(<<"A">>, AddrValid, <<"3", "/", "3", "2">>, <<"M", "B", "I", "I">>, FALSE),
     ServerData(<<"B">>, AddrNoColon, <<"N", "/", "A">>, <<"O", "p", "e", "n", "J", "K">>, TRUE)}

\* one unreachable server
PoolDirectory ==
    {ServerData(<<"S">>, AddrValid, <<"0", "/", "3", "2">>, <<"m", "b", "2">>, FALSE)}

\* every probe outcome: an answer after 20 ms, silence, a socket error, and
\* an exception escaping the task
NetEvents == {NetResponse(20000), NetTimeout, NetOSError, NetFault}

\* a network on which every server answers after 20 ms
NetAnswering == {NetResponse(20000)}

\* the sequences of length n over the set S
SeqsOfLen(S, n) == [1..n -> S]

\* the pages the directory can return: up to MaxServers rows of dir
Pages(dir) == UNION {SeqsOfLen(dir, n) : n \in 0..MaxServers}

(***************************************************************************)
(* State.                                                                  *)
(***************************************************************************)
VARIABLES
    directory,        \* the rows the listing site can serve (environment)
    net,              \* what the network can do to a probe (environment)
    servers,          \* ServerBrowser.servers, the catalog
    mod_filter,       \* ServerBrowser.mod_filter
    server_tree,      \* the rows of ServerBrowser.server_tree, top to bottom
    status_label,     \* the text kind of ServerBrowser.status_label
    refresh_button,   \* state of the Refresh button: "normal" or "disabled"
    filter_button,    \* state of the Filter button
    window,           \* whether the browser window exists
    after_queue,      \* callbacks scheduled with window.after(0, ...), in order
    pc,               \* per refresh thread: where _fetch_servers_thread is
    new_servers,      \* per refresh thread: its local new_servers
    idx,              \* per refresh thread: the submission loop's position
    fut,              \* per refresh thread: the futures of its executor
    future_to_server, \* per refresh thread: future -> index in new_servers
    yielded,          \* per refresh thread: futures as_completed has yielded
    exc,              \* per refresh thread: the exception the thread caught
    heading,          \* per column: the reverse flag its heading command passes
    probe,            \* one call of ping_server, statement by statement
    selected_server_addr, \* ServerBrowser.selected_server_addr
    join,             \* one call of join_selected_server, and what it did
    repositories,     \* GitHubReleaseManager.repositories
    listbox_repos,    \* the items of listbox_repos, top to bottom
    is_rate_limited,  \* GitHubReleaseManager.is_rate_limited
    selected_repo_url,    \* GitHubReleaseManager.selected_repo_url
    current_repo,     \* current_owner and current_repo
    selected_release_tag, \* GitHubReleaseManager.selected_release_tag
    available_releases,   \* the tags that key available_releases
    release_version_combo, \* state and values of the version dropdown
    master_after,     \* callbacks scheduled with master.after(0, ...), in order
    manager_pc,       \* where the threads of the manager are
    popups,           \* the message boxes that are open, innermost last
    rate_limit_runs,  \* how often the body of handle_rate_limit has run
    mainloop          \* whether root.mainloop() is running

ui == <<servers, mod_filter, server_tree, status_label, refresh_button,
        filter_button, window, after_queue>>
env == <<directory, net>>
joiner == <<selected_server_addr, join>>
manager == <<repositories, listbox_repos, is_rate_limited, selected_repo_url,
             current_repo, selected_release_tag, available_releases, release_version_combo,
             master_after, manager_pc, popups, rate_limit_runs, mainloop>>
locals == <<new_servers, idx, fut, future_to_server, yielded, exc>>
vars == <<directory, net, servers, mod_filter, server_tree, status_label,
          refresh_button, filter_button, window, after_queue, pc, new_servers,
          idx, fut, future_to_server, yielded, exc, heading, probe,
          selected_server_addr, join, repositories, listbox_repos,
          is_rate_limited, selected_repo_url, current_repo, selected_release_tag,
          available_releases, release_version_combo, master_after, manager_pc,
          popups, rate_limit_runs, mainloop>>

Threads == 1..MaxThreads

\* a function with no argument: an empty dict
EmptyMap == [k \in {} |-> 0]

\* the futures of thread t in a state
FuturesIn(t, state) == {f \in DOMAIN fut[t] : fut[t][f].state = state}

\* probes in flight: ping_server calls started and not yet returned
InFlight(t) == FuturesIn(t, "running")

(***************************************************************************)
(* The state the two constructors leave.                                   *)
(***************************************************************************)
\* selected_server_addr is None
NoSelection == [kind |-> "none", text |-> <<>>]

\* no call of join_selected_server has been made: nothing looked up, no
\* message box shown, no game launched
JoinIdle ==
    [pc |-> "idle", found |-> <<>>, status |-> "none", choice |-> "none",
     msg |-> "none", launched |-> <<>>]

\* ServerBrowser.__init__: no row is selected
InitJoiner ==
    /\ selected_server_addr = NoSelection
    /\ join = JoinIdle

\* a modal dialog or message box of the join is open: its wait_window runs
\* the event loop
DialogOpen ==
    \/ join.pc = "dialog" /\ join.status \in {"red", "not_downloaded"}
    \/ join.pc = "box"

\* the threads that fetch release lists at the same time
Fetchers == 1..MaxFetches

\* selected_release_tag is None
NoTag == <<>>

\* the placeholder the version dropdown shows before a repository is chosen
ComboInitial ==
    [state |-> "disabled", values |-> << <<"Please select a repository...">> >>,
     text |-> <<"Please select a repository...">>]

\* GitHubReleaseManager.__init__: nothing is listed or selected, and the
\* thread that runs fetch_and_populate_repositories has been started
InitManager ==
    /\ repositories = <<>>
    /\ listbox_repos = <<>>
    /\ is_rate_limited = FALSE
    /\ selected_repo_url = "None"
    /\ current_repo = "None"
    /\ selected_release_tag = NoTag
    /\ available_releases = {}
    /\ release_version_combo = ComboInitial
    /\ master_after = <<>>
    /\ manager_pc =
          [startup |-> "repositories",
           fetch |-> [f \in Fetchers |-> [pc |-> "idle", repo |-> "None"]],
           download |-> "idle"]
    /\ popups = <<>>
    /\ rate_limit_runs = 0
    /\ mainloop = TRUE

(***************************************************************************)
(* fetch_servers: the main thread starts a refresh thread.                 *)
(***************************************************************************)
\* fetch_servers leaving the buttons enabled
ButtonStateLeftNormal == "normal"

\* the state fetch_servers leaves the Refresh and Filter buttons in
ButtonStateWhileFetching == "disabled"

fetch_servers(t) ==
    /\ pc[t] = "idle"
    /\ \A u \in Threads : pc[u] = "idle" => t <= u
    /\ status_label' = "Fetching servers..."
    /\ refresh_button' = ButtonStateWhileFetching
    /\ filter_button' = ButtonStateWhileFetching
    /\ pc' = [pc EXCEPT ![t] = "scrape"]
    /\ UNCHANGED <<manager, joiner, env, probe, heading, servers, mod_filter, server_tree, window, after_queue, locals>>

\* a click on Refresh: Tk runs the command of a button that is not disabled
ClickRefresh ==
    /\ window
    /\ join.pc = "idle"
    /\ refresh_button = "normal"
    /\ \E t \in Threads : fetch_servers(t)

(***************************************************************************)
(* _fetch_servers_thread.                                                  *)
(***************************************************************************)
\* scrape_jkhub_servers returns a page (the empty one on a request error or
\* a page without a table); the executor is created
Scrape(t) ==
    /\ pc[t] = "scrape"
    /\ \E page \in Pages(directory) :
          new_servers' = [new_servers EXCEPT ![t] = page]
    /\ idx' = [idx EXCEPT ![t] = 1]
    /\ fut' = [fut EXCEPT ![t] = EmptyMap]
    /\ future_to_server' = [future_to_server EXCEPT ![t] = EmptyMap]
    /\ yielded' = [yielded EXCEPT ![t] = {}]
    /\ pc' = [pc EXCEPT ![t] = "submit"]
    /\ UNCHANGED <<manager, joiner, env, probe, heading, ui, exc>>

\* scrape_jkhub_servers raises something other than a RequestException
ScrapeRaises(t) ==
    /\ pc[t] = "scrape"
    /\ exc' = [exc EXCEPT ![t] = "Exception"]
    /\ pc' = [pc EXCEPT ![t] = "except"]
    /\ UNCHANGED <<manager, joiner, env, probe, heading, ui, new_servers, idx, fut, future_to_server, yielded>>

\* every future stored under the first server
FutureServerFirst(k) == 1

\* every future but the first stored under the server before its own
FutureServerPrevious(k) == IF k > 1 THEN k - 1 ELSE k

\* the index in new_servers of the server stored under the future submitted
\* in iteration k of the loop
FutureServer(k) == k

\* one iteration of the submission loop
SubmitStep(t) ==
    /\ pc[t] = "submit"
    /\ idx[t] <= Len(new_servers[t])
    /\ LET k == idx[t]
           d == AddrDecision(new_servers[t][k].addr)
       IN  /\ new_servers' =
                 [new_servers EXCEPT ![t][k].ping =
                     IF d.act = "parse_error" THEN ParseErrorStatus
                     ELSE IF d.act = "invalid" THEN InvalidAddrStatus
                     ELSE @]
           /\ fut' =
                 IF d.act = "submit"
                 THEN [fut EXCEPT ![t] =
                          (k :> [state |-> "queued", ip |-> d.ip, port |-> d.port,
                                 calls |-> 0,
                                 outcome |-> [raised |-> FALSE, value |-> 0]]) @@ @]
                 ELSE fut
           /\ future_to_server' =
                 IF d.act = "submit"
                 THEN [future_to_server EXCEPT ![t] = (k :> FutureServer(k)) @@ @]
                 ELSE future_to_server
           /\ exc' = IF d.act = "raise" THEN [exc EXCEPT ![t] = "ValueError"] ELSE exc
           /\ pc' = IF d.act = "raise" THEN [pc EXCEPT ![t] = "unwind"] ELSE pc
           /\ idx' = [idx EXCEPT ![t] = k + 1]
    /\ UNCHANGED <<manager, joiner, env, probe, heading, ui, yielded>>

\* the submission loop ends
SubmitDone(t) ==
    /\ pc[t] = "submit"
    /\ idx[t] > Len(new_servers[t])
    /\ pc' = [pc EXCEPT ![t] = "collect"]
    /\ UNCHANGED <<manager, joiner, env, probe, heading, ui, locals>>

\* a pool that starts a worker for every task
PoolAlwaysHasWorker(t) == TRUE

\* the executor has a worker for another task: max_workers=MAX_PING_THREADS
PoolHasFreeWorker(t) == Cardinality(InFlight(t)) < MAX_PING_THREADS

\* a worker of the pool takes the oldest queued task and calls ping_server
WorkerStart(t, f) ==
    /\ f \in FuturesIn(t, "queued")
    /\ \A g \in FuturesIn(t, "queued") : f <= g
    /\ PoolHasFreeWorker(t)
    /\ fut' = [fut EXCEPT ![t][f].state = "running", ![t][f].calls = @ + 1]
    /\ UNCHANGED <<manager, joiner, env, probe, heading, ui, pc, new_servers, idx, future_to_server, yielded, exc>>

\* ping_server returns (or the task raises) and the future completes
ProbeReturn(t, f) ==
    /\ f \in InFlight(t)
    /\ \E ev \in net :
          fut' = [fut EXCEPT ![t][f].state = "done",
                             ![t][f].outcome =
                                 FutureOutcome(fut[t][f].ip, fut[t][f].port, ev)]
    /\ UNCHANGED <<manager, joiner, env, probe, heading, ui, pc, new_servers, idx, future_to_server, yielded, exc>>

\* as_completed yields a finished future and the loop body writes its result
\* onto the server future_to_server gives for it
Collect(t, f) ==
    /\ pc[t] = "collect"
    /\ f \in DOMAIN future_to_server[t]
    /\ f \notin yielded[t]
    /\ fut[t][f].state = "done"
    /\ new_servers' =
          [new_servers EXCEPT ![t][future_to_server[t][f]].ping =
              PingStatusOf(fut[t][f].outcome)]
    /\ yielded' = [yielded EXCEPT ![t] = @ \cup {f}]
    /\ UNCHANGED <<manager, joiner, env, probe, heading, ui, pc, idx, fut, future_to_server, exc>>

\* a collection loop that ends before it has seen every future
CollectionOverAtOnce(t) == TRUE

\* the loop over as_completed ends when it has yielded every future of
\* future_to_server
CollectionOver(t) == yielded[t] = DOMAIN future_to_server[t]

\* the with block ends: the collection loop is over (or an exception left the
\* block) and shutdown(wait=True) has seen every task of the pool finish
ExecutorExit(t) ==
    /\ pc[t] \in {"collect", "unwind"}
    /\ pc[t] = "collect" => CollectionOver(t)
    /\ \A f \in DOMAIN fut[t] : fut[t][f].state = "done"
    /\ pc' = [pc EXCEPT ![t] = IF pc[t] = "collect" THEN "swap" ELSE "except"]
    /\ UNCHANGED <<manager, joiner, env, probe, heading, ui, locals>>

\* a catalog that keeps the records it had and adds the new ones
CatalogMerged(old, new) == old \o new

\* the catalog after self.servers = new_servers
CatalogAfterSwap(old, new) == new

\* self.servers = new_servers
Swap(t) ==
    /\ pc[t] = "swap"
    /\ servers' = CatalogAfterSwap(servers, new_servers[t])
    /\ pc' = [pc EXCEPT ![t] = "notify"]
    /\ UNCHANGED <<manager, joiner, env, probe, heading, mod_filter, server_tree, status_label, refresh_button,
                   filter_button, window, after_queue, locals>>

\* a thread that schedules display_servers whatever the catalog holds
NotifyCallbackAlwaysDisplays(catalog) == "display_servers"

\* what the thread schedules after the swap: display_servers when the
\* catalog holds a server, else the no-servers message
NotifyCallback(catalog) ==
    IF Len(catalog) > 0 THEN "display_servers" ELSE "status_no_servers"

\* after the swap: display_servers is scheduled, or the no-servers message
Notify(t) ==
    /\ pc[t] = "notify"
    /\ after_queue' =
          IF ~window THEN after_queue
          ELSE Append(after_queue, NotifyCallback(servers))
    /\ pc' = [pc EXCEPT ![t] = "finally"]
    /\ UNCHANGED <<manager, joiner, env, probe, heading, servers, mod_filter, server_tree, status_label,
                   refresh_button, filter_button, window, locals>>

\* except Exception: the error message is scheduled
ExceptHandler(t) ==
    /\ pc[t] = "except"
    /\ after_queue' =
          IF window THEN Append(after_queue, "status_error") ELSE after_queue
    /\ pc' = [pc EXCEPT ![t] = "finally"]
    /\ UNCHANGED <<manager, joiner, env, probe, heading, servers, mod_filter, server_tree, status_label,
                   refresh_button, filter_button, window, locals>>

\* a block that re-enables the buttons only after a cycle without exception
ReenableOnlyOnSuccess(exists, raised) == exists /\ ~raised

\* whether the finally block schedules the re-enabling of the buttons: it
\* runs on every exit of the try statement and asks only winfo_exists
ReenableScheduled(exists, raised) == exists

\* finally: winfo_exists and the first after call (re-enable Refresh); the
\* thread has no further use for its locals
Finally1(t) ==
    /\ pc[t] = "finally"
    /\ after_queue' =
          IF ReenableScheduled(window, exc[t] # "none")
          THEN Append(after_queue, "enable_refresh") ELSE after_queue
    /\ pc' = [pc EXCEPT ![t] =
                 IF ReenableScheduled(window, exc[t] # "none")
                 THEN "finally2" ELSE "idle"]
    /\ new_servers' = [new_servers EXCEPT ![t] = <<>>]
    /\ idx' = [idx EXCEPT ![t] = 1]
    /\ fut' = [fut EXCEPT ![t] = EmptyMap]
    /\ future_to_server' = [future_to_server EXCEPT ![t] = EmptyMap]
    /\ yielded' = [yielded EXCEPT ![t] = {}]
    /\ exc' = [exc EXCEPT ![t] = "none"]
    /\ UNCHANGED <<manager, joiner, env, probe, heading, servers, mod_filter, server_tree, status_label,
                   refresh_button, filter_button, window>>

\* finally: the second after call (re-enable Filter), a TclError if the
\* window has gone meanwhile; the thread ends
Finally2(t) ==
    /\ pc[t] = "finally2"
    /\ after_queue' =
          IF window THEN Append(after_queue, "enable_filter") ELSE after_queue
    /\ pc' = [pc EXCEPT ![t] = "idle"]
    /\ UNCHANGED <<manager, joiner, env, probe, heading, servers, mod_filter, server_tree, status_label,
                   refresh_button, filter_button, window, locals>>

(***************************************************************************)
(* The main thread.                                                        *)
(***************************************************************************)
\* the Tk event loop (of mainloop, or of the wait_window of a dialog of the
\* join) runs the oldest callback scheduled with after(0, ...). Where Tk
\* sends <<TreeviewSelect>> for the deletion of the selected row,
\* display_servers is followed by on_server_select, which finds no focused
\* row: the selection is given up and the label reads Ready (deselected).
\* The callback of the except clause reads the clause's variable e, which
\* is unbound once the thread has left the clause: it sets the error text
\* when it runs before that (bound) and raises NameError, leaving the label,
\* when it runs after.
RunAfter ==
    /\ window
    /\ Len(after_queue) > 0
    /\ join.pc = "idle" \/ DialogOpen
    /\ \E bound \in BOOLEAN, deselected \in BOOLEAN :
       LET cb == Head(after_queue)
           cleared == /\ cb = "display_servers"
                      /\ deselected
                      /\ Len(server_tree) > 0
                      /\ selected_server_addr # NoSelection
       IN  /\ selected_server_addr' =
                 IF cleared THEN NoSelection ELSE selected_server_addr
           /\ server_tree' =
                 IF cb = "display_servers" THEN display_servers(servers, mod_filter)
                 ELSE server_tree
           /\ status_label' =
                 IF cleared THEN "Ready."
                 ELSE IF cb = "display_servers" THEN "Loaded"
                 ELSE IF cb = "status_no_servers" THEN "Error: No servers found"
                 ELSE IF cb = "status_error" /\ bound THEN "Error: exception"
                 ELSE status_label
           /\ heading' =
                 IF cb = "display_servers"
                 THEN HeadingsAfterDisplay(heading, servers, mod_filter)
                 ELSE heading
           /\ servers' =
                 IF cb = "display_servers"
                 THEN CatalogAfterDisplay(servers, mod_filter)
                 ELSE servers
           /\ refresh_button' = IF cb = "enable_refresh" THEN "normal" ELSE refresh_button
           /\ filter_button' = IF cb = "enable_filter" THEN "normal" ELSE filter_button
    /\ after_queue' = Tail(after_queue)
    /\ UNCHANGED <<manager, join, env, probe, mod_filter, window, pc, locals>>

\* the window is destroyed (closed by the user, or by a successful join);
\* its scheduled callbacks go with it
CloseWindow ==
    /\ window
    /\ join.pc = "idle"
    /\ window' = FALSE
    /\ after_queue' = <<>>
    /\ UNCHANGED <<manager, joiner, env, probe, heading, servers, mod_filter, server_tree, status_label,
                   refresh_button, filter_button, pc, locals>>

(***************************************************************************)
(* Row selection and join_selected_server.                                 *)
(***************************************************************************)
\* a cell read back with server_tree.item(row, 'values'): ttk converts
\* every value that int() accepts to that integer
TreeValue(text) ==
    IF PyInt(text).ok
    THEN [kind |-> "int", text |-> IntToStr(PyInt(text).val)]
    ELSE [kind |-> "str", text |-> text]

\* bool(self.selected_server_addr)
Truthy(sel) ==
    \/ sel.kind = "str" /\ Len(sel.text) > 0
    \/ sel.kind = "int" /\ sel.text # <<"0">>

\* server.get('addr') == self.selected_server_addr
AddrEquals(server, sel) == sel.kind = "str" /\ server.addr = sel.text

\* <<TreeviewSelect>>: the address cell of the focused row is remembered
on_server_select(r) ==
    /\ window
    /\ join.pc = "idle"
    /\ r \in 1..Len(server_tree)
    /\ selected_server_addr' = TreeValue(server_tree[r].Address)
    /\ status_label' = "Selected Server"
    /\ UNCHANGED <<manager, join, env, probe, heading, servers, mod_filter,
                   server_tree, refresh_button, filter_button, window,
                   after_queue, pc, locals>>

\* a lookup that takes the first record of the catalog
LookupServerFirst(list, sel) ==
    IF Len(list) = 0 THEN <<>> ELSE <<list[1]>>

\* the loop of join_selected_server over self.servers: the first record
\* whose addr equals the selected address, or none
LookupServer(list, sel) ==
    LET hits == {k \in 1..Len(list) : AddrEquals(list[k], sel)}
    IN  IF hits = {} THEN <<>>
        ELSE <<list[CHOOSE k \in hits : \A j \in hits : k <= j]>>

\* check_server_content_status: configured is a servers.json entry with a
\* repository of that custom_name and a url; downloaded is a last_tag in
\* client.json; remote is how the latest release compares ("same",
\* "newer") or "error" when the request fails
check_server_content_status(configured, downloaded, remote) ==
    IF ~configured THEN "not_found"
    ELSE IF ~downloaded THEN "not_downloaded"
    ELSE IF remote = "same" THEN "green"
    ELSE IF remote = "newer" THEN "red"
    ELSE "green"

ContentStatuses ==
    {check_server_content_status(c, d, r) :
        c \in BOOLEAN, d \in BOOLEAN, r \in {"same", "newer", "error"}}

\* how the user can leave the dialog of a status: a button, or the window
\* manager's close box ("closed"); the statuses without dialog have "none"
DialogChoices(status) ==
    IF status = "red" THEN {"update", "join", "cancel", "closed"}
    ELSE IF status = "not_downloaded" THEN {"download", "cancel", "closed"}
    ELSE {"none"}

\* the value ask_outdated_content_dialog returns
ask_outdated_content_dialog(choice) == choice = "join"

\* the value ask_download_content_dialog returns
ask_download_content_dialog(choice) == FALSE

\* a dialog whose Download button also lets the join go on
show_content_status_dialogDownloadJoins(status, choice) ==
    status \in {"green", "not_found"} \/ choice \in {"join", "download"}

\* the value show_content_status_dialog returns
show_content_status_dialog(status, choice) ==
    IF status = "green" THEN TRUE
    ELSE IF status = "red" THEN ask_outdated_content_dialog(choice)
    ELSE IF status = "not_downloaded" THEN ask_download_content_dialog(choice)
    ELSE TRUE

\* the dialogs call open_content_page, which destroys the browser window
OpensContentPage(status, choice) ==
    \/ status = "red" /\ choice = "update"
    \/ status = "not_downloaded" /\ choice = "download"

\* join_selected_server up to the lookup (2157-2172): without a selection
\* or without a record of that address it shows an error box
JoinCheck ==
    /\ window
    /\ join.pc = "idle"
    /\ LET found == LookupServer(servers, selected_server_addr)
       IN  join' =
              IF ~Truthy(selected_server_addr)
              THEN [join EXCEPT !.pc = "box",
                                !.msg = "Please select a server to join."]
              ELSE IF found = <<>>
              THEN [join EXCEPT !.pc = "box",
                                !.msg = "Could not find selected server data."]
              ELSE [join EXCEPT !.pc = "status", !.found = found]
    /\ UNCHANGED <<manager, selected_server_addr, env, probe, heading, ui, pc,
                   locals>>

\* check_server_content_status returns (2175); the main thread was blocked
\* in its files and its request
JoinStatus ==
    /\ join.pc = "status"
    /\ \E status \in ContentStatuses :
          join' = [join EXCEPT !.pc = "dialog", !.status = status]
    /\ UNCHANGED <<manager, selected_server_addr, env, probe, heading, ui, pc,
                   locals>>

\* show_content_status_dialog (2178): the user leaves the dialog of the
\* status, if it has one
JoinChoose ==
    /\ join.pc = "dialog"
    /\ \E choice \in DialogChoices(join.status) :
          join' = [join EXCEPT !.pc = "chosen", !.choice = choice]
    /\ UNCHANGED <<manager, selected_server_addr, env, probe, heading, ui, pc,
                   locals>>

\* show_content_status_dialog returns: the join goes on, or returns; after
\* Update and Download open_content_page destroys the browser window
JoinDialogReturns ==
    /\ join.pc = "chosen"
    /\ join' =
          IF show_content_status_dialog(join.status, join.choice)
          THEN [join EXCEPT !.pc = "launch"]
          ELSE [JoinIdle EXCEPT !.launched = join.launched]
    /\ window' = (window /\ ~OpensContentPage(join.status, join.choice))
    /\ after_queue' =
          IF OpensContentPage(join.status, join.choice) THEN <<>> ELSE after_queue
    /\ UNCHANGED <<manager, selected_server_addr, env, probe, heading, servers,
                   mod_filter, server_tree, status_label, refresh_button,
                   filter_button, pc, locals>>

\* how the rest of join_selected_server can end for a record: no game
\* directory configured, no executable there, the password prompt
\* cancelled, Popen raising, or the game started
LaunchOutcomes(server) ==
    {"no_directory", "no_executable", "launch_error", "launched"}
        \cup (IF server.passworded THEN {"password_cancelled"} ELSE {})

\* join_selected_server after the content check (2182-2229), up to its
\* message box: the command connects to self.selected_server_addr as it is
\* then, and Popen raises TypeError for an address that is not a string
JoinLaunch ==
    /\ join.pc = "launch"
    /\ \E outcome \in LaunchOutcomes(join.found[1]) :
          LET started == outcome = "launched" /\ selected_server_addr.kind = "str"
          IN  join' =
                 IF outcome = "password_cancelled"
                 THEN [JoinIdle EXCEPT !.launched = join.launched]
                 ELSE [join EXCEPT
                          !.pc = "box",
                          !.msg =
                             IF outcome = "no_directory"
                             THEN "MBII game directory not found."
                             ELSE IF outcome = "no_executable"
                             THEN "Game executable not found"
                             ELSE IF started THEN "Success"
                             ELSE "Launch Error",
                          !.launched =
                             IF started THEN <<selected_server_addr.text>>
                             ELSE join.launched]
    /\ UNCHANGED <<manager, selected_server_addr, env, probe, heading, ui, pc,
                   locals>>

\* the message box of the join is closed and join_selected_server returns;
\* after the Success box it destroys the browser window first (2227)
JoinBoxClosed ==
    /\ join.pc = "box"
    /\ join' = [JoinIdle EXCEPT !.launched = join.launched]
    /\ window' = (window /\ join.msg # "Success")
    /\ after_queue' = IF join.msg = "Success" THEN <<>> ELSE after_queue
    /\ UNCHANGED <<manager, selected_server_addr, env, probe, heading, servers,
                   mod_filter, server_tree, status_label, refresh_button,
                   filter_button, pc, locals>>

(***************************************************************************)
(* Specifications.                                                         *)
(***************************************************************************)
\* the state ServerBrowser.__init__ leaves: fetch_servers has started the
\* first refresh thread
InitBrowser ==
    /\ servers = <<>>
    /\ mod_filter = "Movie Battles II"
    /\ server_tree = <<>>
    /\ status_label = "Fetching servers..."
    /\ refresh_button = "disabled"
    /\ filter_button = "disabled"
    /\ window = TRUE
    /\ after_queue = <<>>
    /\ pc = [t \in Threads |-> IF t = 1 THEN "scrape" ELSE "idle"]
    /\ new_servers = [t \in Threads |-> <<>>]
    /\ idx = [t \in Threads |-> 1]
    /\ fut = [t \in Threads |-> EmptyMap]
    /\ future_to_server = [t \in Threads |-> EmptyMap]
    /\ yielded = [t \in Threads |-> {}]
    /\ exc = [t \in Threads |-> "none"]
    /\ heading = InitialHeadings
    /\ probe = ProbeIdle
    /\ InitJoiner
    /\ InitManager

Init ==
    /\ InitBrowser
    /\ directory = SmallDirectory
    /\ net = NetAnswering

\* the steps of refresh thread t and of its pool
ThreadStepOf(t) ==
    \/ Scrape(t)
    \/ ScrapeRaises(t)
    \/ SubmitStep(t)
    \/ SubmitDone(t)
    \/ \E f \in DOMAIN fut[t] : WorkerStart(t, f)
    \/ \E f \in DOMAIN fut[t] : ProbeReturn(t, f)
    \/ \E f \in DOMAIN fut[t] : Collect(t, f)
    \/ ExecutorExit(t)
    \/ Swap(t)
    \/ Notify(t)
    \/ ExceptHandler(t)
    \/ Finally1(t)
    \/ Finally2(t)

\* the steps of the refresh threads and of their pools
ThreadStep == \E t \in Threads : ThreadStepOf(t)

Next ==
    \/ ThreadStep
    \/ RunAfter
    \/ ClickRefresh
    \/ CloseWindow

\* the browser with its user, over a small directory
Spec == Init /\ [][Next]_vars

\* a step of refresh thread t or of its pool: the thread has been started
\* and its position or one of its locals changes. The first disjunct is an
\* instance of the second (the position alone changes), written out so that
\* TLC can evaluate ENABLED without running the handlers.
ThreadAdvance(t) ==
    /\ pc[t] # "idle"
    /\ \/ /\ pc' = [pc EXCEPT ![t] = "idle"]
          /\ UNCHANGED <<manager, joiner, env, ui, locals, heading, probe>>
       \/ <<pc[t], new_servers[t], idx[t], fut[t], future_to_server[t],
            yielded[t], exc[t]>>' #
          <<pc[t], new_servers[t], idx[t], fut[t], future_to_server[t],
            yielded[t], exc[t]>>

\* a turn of the Tk main loop: the oldest callback scheduled with after
\* leaves the queue (first disjunct: as for ThreadAdvance)
MainLoopTurn ==
    /\ window
    /\ Len(after_queue) > 0
    /\ \/ /\ after_queue' = Tail(after_queue)
          /\ UNCHANGED <<manager, joiner, env, servers, mod_filter, server_tree, status_label,
                         refresh_button, filter_button, window, pc, locals,
                         heading, probe>>
       \/ after_queue' = Tail(after_queue)

\* the scheduling the program runs under: a started thread keeps being
\* scheduled until its target returns (every blocking call of the cycle has
\* a timeout: 30 s for the page, 0.3 s for a probe), and the Tk main loop
\* keeps running the callbacks scheduled with after while the window exists
Fairness ==
    /\ \A t \in Threads : WF_vars(ThreadAdvance(t))
    /\ WF_vars(MainLoopTurn)

\* the browser with its user, under that scheduling
SpecLive == Init /\ [][Next]_vars /\ Fairness
\* one refresh cycle from the opening of the browser, over every sample
\* address and every probe outcome
InitCycle ==
    /\ InitBrowser
    /\ directory = WideDirectory
    /\ net = NetEvents

NextCycle ==
    \/ ThreadStep
    \/ RunAfter

SpecCycle == InitCycle /\ [][NextCycle]_vars

\* a cycle over PoolServers unreachable servers, from the return of the
\* scraper: every probe runs into its timeout, so the probes return in the
\* order they started and as_completed yields them in that order
InitPool ==
    /\ servers = <<>>
    /\ mod_filter = "Movie Battles II"
    /\ server_tree = <<>>
    /\ status_label = "Fetching servers..."
    /\ refresh_button = "disabled"
    /\ filter_button = "disabled"
    /\ window = TRUE
    /\ after_queue = <<>>
    /\ pc = [t \in Threads |-> IF t = 1 THEN "submit" ELSE "idle"]
    /\ new_servers =
          [t \in Threads |->
              IF t = 1
              THEN [k \in 1..PoolServers |-> CHOOSE row \in PoolDirectory : TRUE]
              ELSE <<>>]
    /\ idx = [t \in Threads |-> 1]
    /\ fut = [t \in Threads |-> EmptyMap]
    /\ future_to_server = [t \in Threads |-> EmptyMap]
    /\ yielded = [t \in Threads |-> {}]
    /\ exc = [t \in Threads |-> "none"]
    /\ heading = InitialHeadings
    /\ probe = ProbeIdle
    /\ InitJoiner
    /\ InitManager
    /\ directory = PoolDirectory
    /\ net = {NetTimeout}

ProbeReturnInOrder(t, f) ==
    /\ \A g \in InFlight(t) : f <= g
    /\ ProbeReturn(t, f)

CollectInOrder(t, f) ==
    /\ \A g \in FuturesIn(t, "done") \ yielded[t] : f <= g
    /\ Collect(t, f)

NextPool ==
    \/ \E t \in Threads :
          \/ SubmitStep(t)
          \/ SubmitDone(t)
          \/ \E f \in DOMAIN fut[t] : WorkerStart(t, f)
          \/ \E f \in DOMAIN fut[t] : ProbeReturnInOrder(t, f)
          \/ \E f \in DOMAIN fut[t] : CollectInOrder(t, f)
          \/ ExecutorExit(t)
          \/ Swap(t)
          \/ Notify(t)
          \/ Finally1(t)
          \/ Finally2(t)
    \/ RunAfter

SpecPool == InitPool /\ [][NextPool]_vars

(***************************************************************************)
(* One call of ping_server, statement by statement.                        *)
(***************************************************************************)
\* the hosts and ports ping_server is called with
ProbeHosts == {<<"h">>}
ProbePorts == {8, 65535, 70000, -1}

\* readings of time.time(), in microseconds; the wall clock may be set
\* forward or back between two readings
ClockReadings == {0, 1000, 1499, 1500, 2500, 21000, 1000000}

\* the variables a statement of ping_server leaves alone
browser == <<env, ui, pc, locals, heading>>

\* the call returns through one of the except clauses of ping_server: the
\* socket has not been closed by the code, and whether it is closed when the
\* frame goes depends on the interpreter finalizing it then or later
ReturnFromExcept(kind, value) ==
    \E s \in (IF probe.sock = "open" THEN {"open", "closed"} ELSE {probe.sock}) :
        probe' = [probe EXCEPT !.pc = "returned", !.ret = value, !.ev = kind,
                               !.sock = s]

\* ping_server(ip, port) is called
PingCall ==
    /\ probe.pc \in {"idle", "returned"}
    /\ \E ip \in ProbeHosts, port \in ProbePorts :
          probe' = [ProbeIdle EXCEPT !.pc = "socket", !.ip = ip, !.port = port]
    /\ UNCHANGED <<browser, joiner, manager>>

\* socket.socket(AF_INET, SOCK_DGRAM) and settimeout
ProbeSocket ==
    /\ probe.pc = "socket"
    /\ probe' = [probe EXCEPT !.pc = "sendto", !.sock = "open"]
    /\ UNCHANGED <<browser, joiner, manager>>

\* socket.socket raises OSError (no descriptor left)
ProbeSocketFails ==
    /\ probe.pc = "socket"
    /\ ReturnFromExcept("oserror", -1)
    /\ UNCHANGED <<browser, joiner, manager>>

\* start_time = time.time() and sendto(QUERY_PACKET, (ip, port)); sendto
\* raises OverflowError for a port outside 0..65535
ProbeSendto ==
    /\ probe.pc = "sendto"
    /\ IF probe.port < 0 \/ probe.port > 65535
       THEN ReturnFromExcept("overflow", -1)
       ELSE \E now \in ClockReadings :
               probe' = [probe EXCEPT !.pc = "recv", !.start_time = now,
                                      !.sent = QUERY_PACKET,
                                      !.dest = <<probe.ip, probe.port>>]
    /\ UNCHANGED <<browser, joiner, manager>>

\* sendto raises OSError (host unknown, network unreachable)
ProbeSendtoFails ==
    /\ probe.pc = "sendto"
    /\ probe.port >= 0 /\ probe.port <= 65535
    /\ ReturnFromExcept("oserror", -1)
    /\ UNCHANGED <<browser, joiner, manager>>

\* recv returns a datagram and end_time = time.time()
ProbeRecv ==
    /\ probe.pc = "recv"
    /\ \E now \in ClockReadings :
          probe' = [probe EXCEPT !.pc = "close", !.end_time = now, !.ev = "response"]
    /\ UNCHANGED <<browser, joiner, manager>>

\* recv raises socket.timeout
ProbeRecvTimeout ==
    /\ probe.pc = "recv"
    /\ ReturnFromExcept("timeout", 999)
    /\ UNCHANGED <<browser, joiner, manager>>

\* recv raises another OSError (port unreachable, connection reset)
ProbeRecvFails ==
    /\ probe.pc = "recv"
    /\ ReturnFromExcept("oserror", -1)
    /\ UNCHANGED <<browser, joiner, manager>>

\* latency_ms = round((end_time - start_time) * 1000), sock.close(), return
ProbeClose ==
    /\ probe.pc = "close"
    /\ probe' = [probe EXCEPT !.pc = "returned", !.sock = "closed",
                              !.ret = RoundMs(probe.end_time - probe.start_time)]
    /\ UNCHANGED <<browser, joiner, manager>>

\* the browser as __init__ leaves it; only the call of ping_server is followed
InitProbe ==
    /\ InitBrowser
    /\ directory = {}
    /\ net = {}

NextProbe ==
    \/ PingCall
    \/ ProbeSocket
    \/ ProbeSocketFails
    \/ ProbeSendto
    \/ ProbeSendtoFails
    \/ ProbeRecv
    \/ ProbeRecvTimeout
    \/ ProbeRecvFails
    \/ ProbeClose

SpecProbe == InitProbe /\ [][NextProbe]_vars

(***************************************************************************)
(* The browser at rest: the user filters and sorts a catalog.              *)
(***************************************************************************)
\* mod fields as the directory lists them: the four of the alias table, and
\* one with upper case, an em space, a run of spaces, what is left of an
\* HTML entity, a no-break space and punctuation
ModMovieBattles ==
    <<"M", "o", "v", "i", "e", " ", "B", "a", "t", "t", "l", "e", "s", " ", "I", "I">>
ModMb2 == <<"m", "b", "2">>
ModOpenJK == <<"O", "p", "e", "n", "J", "K">>
ModBasejk == <<"b", "a", "s", "e", "j", "k">>
ModEntity ==
    <<"M", "o", "v", "i", "e", EMSP, " ", " ", "B", "A", "T", "T", "L", "E", "S",
      "&", "n", "b", "s", "p", ";", NBSP, "2", "!">>

ModSamples == {ModMovieBattles, ModMb2, ModOpenJK, ModBasejk, ModEntity}

\* a record of a finished cycle for each mod field, with its own name,
\* players cell and ping status
ViewRecord(m) ==
    [ServerData(<<"S">>, AddrValid, <<>>, m, FALSE) EXCEPT
        !.hostname = IF m = ModMovieBattles THEN <<"A">>
                     ELSE IF m = ModMb2 THEN <<"B">>
                     ELSE IF m = ModOpenJK THEN <<"C">>
                     ELSE IF m = ModBasejk THEN <<"D">>
                     ELSE <<"F">>,
        !.clients = IF m = ModMovieBattles THEN <<"1", "0", "/", "8">>
                    ELSE IF m = ModMb2 THEN <<"9", "/", "3", "2">>
                    ELSE IF m = ModOpenJK THEN <<"0", "/", "1", "6">>
                    ELSE IF m = ModBasejk THEN <<"N", "/", "A">>
                    ELSE <<"1", "2", "/", "3", "2">>,
        !.ping = IF m = ModMovieBattles THEN <<"2", "0">>
                 ELSE IF m = ModMb2 THEN TimeoutStatus
                 ELSE IF m = ModOpenJK THEN ErrorStatus
                 ELSE IF m = ModBasejk THEN <<"5">>
                 ELSE <<"1", "0", "0">>]

ViewRecords == {ViewRecord(m) : m \in ModSamples}

\* a catalog with the four mod fields of the alias table, in this order
AliasCatalog ==
    <<ViewRecord(ModMovieBattles), ViewRecord(ModMb2), ViewRecord(ModOpenJK),
      ViewRecord(ModBasejk)>>

\* the catalogs a finished cycle can have left
ViewCatalogs == Pages(ViewRecords) \cup {AliasCatalog}

\* MOD_OPTIONS of the filter popup
MOD_OPTIONS == {"All Mods", "Movie Battles II", "OpenJK", "basejk"}

\* Apply Filter in the popup: mod_filter is set and display_servers runs
apply_mod_filter(choice) ==
    /\ window
    /\ filter_button = "normal"
    /\ mod_filter' = choice
    /\ server_tree' = display_servers(servers, choice)
    /\ heading' = HeadingsAfterDisplay(heading, servers, choice)
    /\ status_label' = "Loaded"
    /\ servers' = CatalogAfterDisplay(servers, choice)
    /\ UNCHANGED <<manager, joiner, env, probe, refresh_button, filter_button, window,
                   after_queue, pc, locals>>

\* a click on the heading of a column runs the command bound to it
HeadingClick(col) ==
    /\ window
    /\ server_tree' = sort_column(server_tree, col, heading[col])
    /\ heading' = HeadingsAfterSort(heading, col, heading[col])
    /\ UNCHANGED <<manager, joiner, env, probe, servers, mod_filter, status_label, refresh_button,
                   filter_button, window, after_queue, pc, locals>>

\* a cycle has ended and its callbacks have run: the catalog is displayed
\* under the default filter and the buttons are enabled
InitView ==
    /\ servers \in ViewCatalogs
    /\ mod_filter = "Movie Battles II"
    /\ server_tree = display_servers(servers, mod_filter)
    /\ heading = HeadingsAfterDisplay(InitialHeadings, servers, mod_filter)
    /\ status_label = "Loaded"
    /\ refresh_button = "normal"
    /\ filter_button = "normal"
    /\ window = TRUE
    /\ after_queue = <<>>
    /\ pc = [t \in Threads |-> "idle"]
    /\ new_servers = [t \in Threads |-> <<>>]
    /\ idx = [t \in Threads |-> 1]
    /\ fut = [t \in Threads |-> EmptyMap]
    /\ future_to_server = [t \in Threads |-> EmptyMap]
    /\ yielded = [t \in Threads |-> {}]
    /\ exc = [t \in Threads |-> "none"]
    /\ probe = ProbeIdle
    /\ InitJoiner
    /\ InitManager
    /\ directory = ViewRecords
    /\ net = {}

NextView ==
    \/ \E choice \in MOD_OPTIONS : apply_mod_filter(choice)
    \/ \E col \in Columns : HeadingClick(col)

SpecView == InitView /\ [][NextView]_vars

\* an address made of digits only
AddrDigits == <<"7">>

\* the directories of SpecJoin: one lists a Movie Battles II server with a
\* good address, the other a passworded one whose address cell reads as an
\* integer
JoinDirectories ==
    {{ServerData(<<"A">>, AddrValid, <<"3", "/", "3", "2">>, <<"M", "B", "I", "I">>, FALSE)},
     {ServerData(<<"N">>, AddrDigits, <<"0", "/", "8">>, <<"M", "B", "I", "I">>, TRUE)}}

\* the browser with a user who selects rows, refreshes and joins
InitJoin ==
    /\ InitBrowser
    /\ directory \in JoinDirectories
    /\ net = NetAnswering

NextJoin ==
    \/ ThreadStep
    \/ RunAfter
    \/ ClickRefresh
    \/ \E r \in 1..MaxServers : on_server_select(r)
    \/ JoinCheck
    \/ JoinStatus
    \/ JoinChoose
    \/ JoinDialogReturns
    \/ JoinLaunch
    \/ JoinBoxClosed

SpecJoin == InitJoin /\ [][NextJoin]_vars

(***************************************************************************)
(* GitHubReleaseManager: the repository list, the release fetches and the  *)
(* rate-limit handling. Callbacks that only set the status text, print or  *)
(* update a button state are left out of master_after.                     *)
(***************************************************************************)
\* the list the remote repositories.json holds, and the one of the local
\* fallback file
RemoteRepositories == <<"X", "Y">>
LocalRepositories == <<"X">>

\* the tags of the releases GitHub lists for a repository, newest first
Releases(repo) == << <<repo, "v2">>, <<repo, "v1">> >>

\* the elements of a sequence
Range(seq) == {seq[k] : k \in 1..Len(seq)}

\* a callback scheduled with master.after(0, ...)
Callback(cb, repo) == [cb |-> cb, repo |-> repo]

\* the queue after the callbacks have been scheduled, unless the
\* application has exited
Schedule(queue, cbs) == queue \o cbs

\* the main window takes a click: the main loop runs, no message box holds
\* the grab, and few callbacks wait
MainWindowFree ==
    /\ mainloop
    /\ popups = <<>>
    /\ Len(master_after) < MaxCallbacks

\* fetch_and_populate_repositories, first try statement (632-662): the
\* remote list is fetched and saved ("remote"), fetched but not saved
\* ("remote_unsaved"), or the fetch fails and the local file is loaded
\* ("local"), cannot be read ("local_bad") or does not exist ("none")
StartupRepositories ==
    /\ manager_pc.startup = "repositories"
    /\ \E outcome \in {"remote", "remote_unsaved", "local", "local_bad", "none"} :
          /\ repositories' =
                IF outcome \in {"remote", "remote_unsaved"} THEN RemoteRepositories
                ELSE IF outcome = "local" THEN LocalRepositories
                ELSE <<>>
          /\ master_after' =
                Schedule(master_after,
                   IF outcome = "remote"
                   THEN <<Callback("populate_repositories", "None")>>
                   ELSE IF outcome = "remote_unsaved"
                   THEN <<Callback("box_e", "None"),
                          Callback("populate_repositories", "None")>>
                   ELSE IF outcome = "none" THEN <<Callback("box", "None")>>
                   ELSE <<>>)
    /\ manager_pc' = [manager_pc EXCEPT !.startup = "servers"]
    /\ UNCHANGED <<browser, probe, joiner, listbox_repos, is_rate_limited,
                   selected_repo_url, current_repo, selected_release_tag,
                   available_releases, release_version_combo, popups,
                   rate_limit_runs, mainloop>>

\* fetch_and_populate_repositories, second try statement (664-683): the
\* servers list is fetched and saved, fetched but not saved, or not fetched
StartupServers ==
    /\ manager_pc.startup = "servers"
    /\ \E outcome \in {"saved", "unsaved", "failed"} :
          master_after' =
             Schedule(master_after,
                IF outcome = "unsaved" THEN <<Callback("box_e", "None")>>
                ELSE IF outcome = "failed"
                THEN <<Callback("populate_repositories", "None")>>
                ELSE <<>>)
    /\ manager_pc' = [manager_pc EXCEPT !.startup = "done"]
    /\ UNCHANGED <<browser, probe, joiner, repositories, listbox_repos,
                   is_rate_limited, selected_repo_url, current_repo,
                   selected_release_tag, available_releases,
                   release_version_combo, popups, rate_limit_runs, mainloop>>

\* on_listbox_select for the item at index i (855-900): the selection and
\* current_owner/current_repo are set, the dropdown is disabled and a
\* thread is started for fetch_releases_for_repo
on_listbox_select(i) ==
    /\ MainWindowFree
    /\ i \in 1..Len(listbox_repos)
    /\ i <= Len(repositories)
    /\ ~is_rate_limited
    /\ \E f \in Fetchers :
          /\ manager_pc.fetch[f].pc = "idle"
          /\ \A g \in Fetchers : manager_pc.fetch[g].pc = "idle" => f <= g
          /\ manager_pc' =
                [manager_pc EXCEPT !.fetch[f] = [pc |-> "start", repo |-> "None"]]
    /\ selected_repo_url' = repositories[i]
    /\ current_repo' = repositories[i]
    /\ selected_release_tag' = NoTag
    /\ release_version_combo' =
          [release_version_combo EXCEPT !.state = "disabled",
                                        !.text = <<"Loading releases...">>]
    /\ UNCHANGED <<browser, probe, joiner, repositories, listbox_repos,
                   is_rate_limited, available_releases, master_after, popups,
                   rate_limit_runs, mainloop>>

\* fetch_releases_for_repo up to its request (904-909): the thread returns
\* when the flag is set, else it builds the URL from current_owner and
\* current_repo as they are when it runs
FetchRequest(f) ==
    /\ manager_pc.fetch[f].pc = "start"
    /\ manager_pc' =
          [manager_pc EXCEPT !.fetch[f] =
              IF is_rate_limited THEN [pc |-> "idle", repo |-> "None"]
              ELSE [pc |-> "request", repo |-> current_repo]]
    /\ UNCHANGED <<browser, probe, joiner, repositories, listbox_repos,
                   is_rate_limited, selected_repo_url, current_repo,
                   selected_release_tag, available_releases,
                   release_version_combo, master_after, popups,
                   rate_limit_runs, mainloop>>

\* fetch_releases_for_repo from the response on (910-948): releases are
\* stored in available_releases by the thread and the dropdown update is
\* scheduled; an empty list, a 403 and another failure schedule theirs
FetchResponse(f) ==
    /\ manager_pc.fetch[f].pc = "request"
    /\ \E outcome \in {"releases", "empty", "403", "error"} :
          LET repo == manager_pc.fetch[f].repo
          IN  /\ available_releases' =
                    IF outcome = "releases" THEN Range(Releases(repo))
                    ELSE available_releases
              /\ master_after' =
                    Schedule(master_after,
                       IF outcome = "releases" THEN <<Callback("releases", repo)>>
                       ELSE IF outcome = "empty" THEN <<Callback("no_releases", "None")>>
                       ELSE IF outcome = "403"
                       THEN <<Callback("handle_rate_limit", "None")>>
                       ELSE <<Callback("fetch_error", "None")>>)
    /\ manager_pc' =
          [manager_pc EXCEPT !.fetch[f] = [pc |-> "idle", repo |-> "None"]]
    /\ UNCHANGED <<browser, probe, joiner, repositories, listbox_repos,
                   is_rate_limited, selected_repo_url, current_repo,
                   selected_release_tag, release_version_combo, popups,
                   rate_limit_runs, mainloop>>

\* on_download (981-996): with a selected version that available_releases
\* holds, the download thread is started
on_download ==
    /\ MainWindowFree
    /\ selected_repo_url # "None"
    /\ selected_release_tag # NoTag
    /\ selected_release_tag \in available_releases
    /\ manager_pc.download = "idle"
    /\ manager_pc' = [manager_pc EXCEPT !.download = "start"]
    /\ UNCHANGED <<browser, probe, joiner, repositories, listbox_repos,
                   is_rate_limited, selected_repo_url, current_repo,
                   selected_release_tag, available_releases,
                   release_version_combo, master_after, popups,
                   rate_limit_runs, mainloop>>

\* download_release_by_tag (998-1060): the release is downloaded and
\* unpacked, or the request is answered with 403, or it fails otherwise
\* (also when the release data is no longer there)
download_release_by_tag ==
    /\ manager_pc.download = "start"
    /\ \E outcome \in {"done", "403", "error"} :
          master_after' =
             Schedule(master_after,
                IF outcome = "done" /\ selected_release_tag \in available_releases
                THEN <<Callback("box", "None"),
                       Callback("populate_repositories", "None")>>
                ELSE IF outcome = "403" /\ selected_release_tag \in available_releases
                THEN <<Callback("handle_rate_limit", "None")>>
                ELSE IF outcome = "error" /\ selected_release_tag \in available_releases
                THEN <<Callback("box_e", "None")>>
                ELSE <<>>)
    /\ manager_pc' = [manager_pc EXCEPT !.download = "idle"]
    /\ UNCHANGED <<browser, probe, joiner, repositories, listbox_repos,
                   is_rate_limited, selected_repo_url, current_repo,
                   selected_release_tag, available_releases,
                   release_version_combo, popups, rate_limit_runs, mainloop>>

\* a handler that leaves the flag as it found it
RateLimitFlagLeft(flag) == flag

\* is_rate_limited after the first statement of the body of
\* handle_rate_limit, before the popup is shown
RateLimitFlagSet(flag) == TRUE

\* the event loop (of mainloop, or of the wait_window of an open message
\* box) runs the oldest callback of master.after:
\*   populate_repositories  the listbox is refilled and reset_ui runs
\*   releases               the dropdown gets the tags and the first one is
\*                          chosen (on_release_version_select)
\*   no_releases            the dropdown is disabled
\*   box                    show_custom_messagebox opens a box
\*   box_e, fetch_error     the lambda formats the variable e of its except
\*                          clause: the box opens when the thread is still
\*                          in the clause (bound), else NameError is raised;
\*                          fetch_error also disables the dropdown
\*   handle_rate_limit      with the flag unset: the flag is set and the
\*                          popup opened (master.quit follows its closing)
RunMasterAfter ==
    /\ mainloop \/ popups # <<>>
    /\ Len(master_after) > 0
    /\ \E bound \in BOOLEAN :
       LET c == Head(master_after)
           populate == c.cb = "populate_repositories"
           limited == c.cb = "handle_rate_limit" /\ ~is_rate_limited
       IN  /\ listbox_repos' = IF populate THEN repositories ELSE listbox_repos
           /\ selected_repo_url' = IF populate THEN "None" ELSE selected_repo_url
           /\ selected_release_tag' =
                 IF populate THEN NoTag
                 ELSE IF c.cb = "releases"
                 THEN (IF Releases(c.repo)[1] \in available_releases
                       THEN Releases(c.repo)[1] ELSE NoTag)
                 ELSE selected_release_tag
           /\ release_version_combo' =
                 IF populate THEN ComboInitial
                 ELSE IF c.cb = "releases"
                 THEN [state |-> "readonly", values |-> Releases(c.repo),
                       text |-> Releases(c.repo)[1]]
                 ELSE IF c.cb = "no_releases"
                 THEN [state |-> "disabled",
                       values |-> << <<"No releases found">> >>,
                       text |-> <<"No releases found">>]
                 ELSE IF c.cb = "fetch_error"
                 THEN [state |-> "disabled",
                       values |-> << <<"Error fetching releases">> >>,
                       text |-> <<"Error fetching releases">>]
                 ELSE release_version_combo
           /\ is_rate_limited' =
                 IF limited THEN RateLimitFlagSet(is_rate_limited)
                 ELSE is_rate_limited
           /\ rate_limit_runs' =
                 IF limited THEN rate_limit_runs + 1 ELSE rate_limit_runs
           /\ popups' =
                 IF limited THEN Append(popups, "rate_limit")
                 ELSE IF c.cb = "box" \/ (c.cb \in {"box_e", "fetch_error"} /\ bound)
                 THEN Append(popups, "box")
                 ELSE popups
    /\ master_after' = Tail(master_after)
    /\ UNCHANGED <<browser, probe, joiner, repositories, current_repo,
                   available_releases, manager_pc, mainloop>>

\* the user closes the innermost message box; handle_rate_limit goes on
\* after its popup with master.quit(), which ends the main loop
ClosePopup ==
    /\ popups # <<>>
    /\ popups' = SubSeq(popups, 1, Len(popups) - 1)
    /\ mainloop' = (mainloop /\ popups[Len(popups)] # "rate_limit")
    /\ UNCHANGED <<browser, probe, joiner, repositories, listbox_repos,
                   is_rate_limited, selected_repo_url, current_repo,
                   selected_release_tag, available_releases,
                   release_version_combo, master_after, manager_pc,
                   rate_limit_runs>>

\* the steps of the thread that runs fetch_and_populate_repositories
fetch_and_populate_repositories ==
    \/ StartupRepositories
    \/ StartupServers

\* the steps of a thread that runs fetch_releases_for_repo
fetch_releases_for_repo(f) ==
    \/ FetchRequest(f)
    \/ FetchResponse(f)

\* the steps of the threads of the manager
ManagerThreadStep ==
    \/ fetch_and_populate_repositories
    \/ \E f \in Fetchers : fetch_releases_for_repo(f)
    \/ download_release_by_tag

\* the manager from its construction on; no server browser is opened
InitUpdater ==
    /\ InitBrowser
    /\ directory = {}
    /\ net = {}

NextUpdater ==
    \/ ManagerThreadStep
    \/ RunMasterAfter
    \/ ClosePopup
    \/ \E i \in 1..Len(RemoteRepositories) : on_listbox_select(i)
    \/ on_download

\* the scheduling of the manager: its threads run until their targets
\* return, and the event loop runs the callbacks of master.after while the
\* main loop or a message box is up; the user owes no click
FairnessUpdater ==
    /\ WF_vars(fetch_and_populate_repositories)
    /\ \A f \in Fetchers : WF_vars(fetch_releases_for_repo(f))
    /\ WF_vars(download_release_by_tag)
    /\ WF_vars(RunMasterAfter)

SpecUpdater == InitUpdater /\ [][NextUpdater]_vars /\ FairnessUpdater

(***************************************************************************)
(* Properties.                                                             *)
(***************************************************************************)
\* the text of an integer
NumericStatus(p) == PyInt(p).ok

\* a status a record keeps for the rest of the cycle
TerminalStatus(p) ==
    \/ NumericStatus(p)
    \/ p \in {TimeoutStatus, ErrorStatus, ParseErrorStatus, InvalidAddrStatus}

\* a status only a probe gives
ProbedStatus(p) == NumericStatus(p) \/ p \in {TimeoutStatus, ErrorStatus}

\* the pool of thread t has been joined and the thread still holds its list
ProbePhaseOver(t) == pc[t] \in {"swap", "notify"}

\* a refresh cycle is in flight on thread t: the thread has not yet reached
\* the last statement of its finally block
CycleInFlight(t) == pc[t] \notin {"idle", "finally2"}

\* the status a record shows for the way its probe ended
StatusForOutcome(outcome) ==
    IF outcome.raised THEN ErrorStatus
    ELSE IF outcome.value = 999 THEN TimeoutStatus
    ELSE IF outcome.value = -1 THEN ErrorStatus
    ELSE IntToStr(outcome.value)

\* the text before and after the last colon of an address that holds one
HostText(addr) == RSplitColon(addr).ip
PortText(addr) == RSplitColon(addr).port_str

\* the address names a host and a port in 1..65535
ValidAddr(addr) ==
    /\ HasColon(addr)
    /\ Len(HostText(addr)) > 0
    /\ PyInt(PortText(addr)).ok
    /\ PyInt(PortText(addr)).val \in 1..65535

\* C1: once the pool of a refresh cycle has been joined, every record the
\* directory fetch returned carries a terminal ping status (a number,
\* Timeout, Error, Parse Error or Invalid Addr) and none is still pending.
C1_Completeness ==
    \A t \in Threads :
        ProbePhaseOver(t) =>
            \A k \in 1..Len(new_servers[t]) :
                /\ TerminalStatus(new_servers[t][k].ping)
                /\ new_servers[t][k].ping # Pinging

\* C1 witness: a joined cycle with a probed record and an unparseable one
C1_Witness ==
    \E t \in Threads :
        /\ pc[t] = "swap"
        /\ Len(new_servers[t]) = 2
        /\ new_servers[t][1].ping = <<"2", "0">>
        /\ new_servers[t][2].ping = ParseErrorStatus

\* C2: the catalog readers see never holds a pending record; the thread
\* reaches the assignment of the catalog only when every dispatched probe
\* has resolved and been collected.
C2_CatalogNeverPartial ==
    /\ \A k \in 1..Len(servers) :
          /\ servers[k].ping # Pinging
          /\ TerminalStatus(servers[k].ping)
    /\ \A t \in Threads :
          pc[t] = "swap" =>
              \A f \in DOMAIN fut[t] : fut[t][f].state = "done" /\ f \in yielded[t]

\* C2 witness: readers see a full catalog of two records while the next
\* cycle has collected one of its two probes
C2_Witness ==
    /\ Len(servers) = 2
    /\ \E t \in Threads :
          /\ pc[t] = "collect"
          /\ Len(new_servers[t]) = 2
          /\ new_servers[t][1].ping = Pinging
          /\ new_servers[t][2].ping = <<"2", "0">>

\* C3: at most one refresh cycle is in flight, and while one is in flight
\* the Refresh button is disabled, so that a request is ignored.
C3_OneCycleInFlight ==
    /\ Cardinality({t \in Threads : CycleInFlight(t)}) <= 1
    /\ (\E t \in Threads : CycleInFlight(t)) => refresh_button = "disabled"

\* C3 witness: a second cycle probes while the thread of the first one is
\* still before the last statement of its finally block
C3_Witness ==
    \E t, u \in Threads :
        /\ pc[t] = "finally2"
        /\ pc[u] = "collect"
        /\ Len(servers) > 0
        /\ refresh_button = "disabled"

\* C4: at every moment of a cycle at most 20 probes are in flight.
C4_BoundedInFlight ==
    \A t \in Threads : Cardinality(InFlight(t)) <= 20

\* C4 witness: 20 probes in flight and another one waiting in the queue
C4_Witness ==
    \E t \in Threads :
        /\ Cardinality(InFlight(t)) = 20
        /\ FuturesIn(t, "queued") # {}

\* C5: a probe task that raises makes its own record Error and no more: the
\* thread never enters its exception path for it, and when the pool has
\* been joined every dispatched probe has run and has its own outcome on
\* its record.
C5_FaultIsolated ==
    \A t \in Threads :
        /\ (\E f \in DOMAIN fut[t] : fut[t][f].outcome.raised) =>
              /\ pc[t] \notin {"unwind", "except"}
              /\ exc[t] = "none"
        /\ ProbePhaseOver(t) =>
              \A f \in DOMAIN fut[t] :
                  /\ fut[t][f].state = "done"
                  /\ fut[t][f].outcome.raised => new_servers[t][f].ping = ErrorStatus
                  /\ ~fut[t][f].outcome.raised =>
                        new_servers[t][f].ping = StatusForOutcome(fut[t][f].outcome)

\* C5 witness: the first probe raised, the second was answered, and the
\* thread is about to swap the catalog
C5_Witness ==
    \E t \in Threads :
        /\ pc[t] = "swap"
        /\ DOMAIN fut[t] = {1, 2}
        /\ fut[t][1].outcome.raised
        /\ new_servers[t][1].ping = ErrorStatus
        /\ new_servers[t][2].ping = <<"2", "0">>

\* C6: a ping status changes only from pending to a terminal value, on the
\* list of the thread, and the catalog changes only by the assignment of a
\* finished list; display (with its filtering and sorting) changes neither.
C6_OneTransition ==
    [][/\ \A t \in Threads :
             \A k \in (1..Len(new_servers[t])) \cap (1..Len(new_servers'[t])) :
                 new_servers'[t][k].ping # new_servers[t][k].ping =>
                     /\ new_servers[t][k].ping = Pinging
                     /\ TerminalStatus(new_servers'[t][k].ping)
       /\ servers' # servers =>
             \E t \in Threads : pc[t] = "swap" /\ servers' = new_servers[t]
      ]_vars

\* C6 witness: both records of the catalog are displayed with the statuses
\* their probes gave them
C6_Witness ==
    /\ Len(servers) = 2
    /\ Len(server_tree) = 2
    /\ servers[1].ping = <<"2", "0">>
    /\ servers[2].ping = TimeoutStatus
    /\ \A t \in Threads : pc[t] = "idle"

\* C7: a dispatched record is probed once, and whatever the order in which
\* the probes return, the record ends with the status of its own probe;
\* a record that was not dispatched is not probed.
C7_OwnOutcomeOnce ==
    \A t \in Threads :
        /\ \A f \in DOMAIN fut[t] : fut[t][f].calls <= 1
        /\ \A f \in yielded[t] :
              new_servers[t][f].ping = StatusForOutcome(fut[t][f].outcome)
        /\ ProbePhaseOver(t) =>
              \A k \in 1..Len(new_servers[t]) :
                  IF k \in DOMAIN fut[t]
                  THEN /\ fut[t][k].calls = 1
                       /\ new_servers[t][k].ping = StatusForOutcome(fut[t][k].outcome)
                  ELSE new_servers[t][k].ping \in {ParseErrorStatus, InvalidAddrStatus}

\* C7 witness: the second probe returned and was collected while the first
\* is still in flight
C7_Witness ==
    \E t \in Threads :
        /\ pc[t] = "collect"
        /\ DOMAIN fut[t] = {1, 2}
        /\ fut[t][1].state = "running"
        /\ yielded[t] = {2}
        /\ new_servers[t][1].ping = Pinging
        /\ new_servers[t][2].ping = TimeoutStatus

\* C8 as stated: a record whose address cannot be split into a host and an
\* integer port ends the cycle with status Parse Error.
C8_Original ==
    \A t \in Threads :
        ProbePhaseOver(t) =>
            \A k \in 1..Len(new_servers[t]) :
                LET a == new_servers[t][k].addr
                IN  (~HasColon(a) \/ ~PyInt(PortText(a)).ok) =>
                        new_servers[t][k].ping = ParseErrorStatus

\* C8 amended: a record whose address holds no colon ends the cycle with
\* status Invalid Addr and one whose text after the last colon is no
\* integer with status Parse Error; every record with a valid address is
\* probed once and gets a probed outcome; no exception leaves the loop.
C8_ParseFailureContained ==
    \A t \in Threads :
        /\ exc[t] # "ValueError"
        /\ pc[t] # "unwind"
        /\ ProbePhaseOver(t) =>
              \A k \in 1..Len(new_servers[t]) :
                  LET a == new_servers[t][k].addr
                      ping == new_servers[t][k].ping
                  IN  /\ ~HasColon(a) => ping = InvalidAddrStatus
                      /\ (HasColon(a) /\ ~PyInt(PortText(a)).ok) =>
                            ping = ParseErrorStatus
                      /\ ValidAddr(a) =>
                            /\ k \in DOMAIN fut[t]
                            /\ fut[t][k].calls = 1
                            /\ ProbedStatus(ping)

\* C8 witness: a cycle over an address with a non-integer port and a valid
\* one, joined
C8_Witness ==
    \E t \in Threads :
        /\ pc[t] = "swap"
        /\ Len(new_servers[t]) = 2
        /\ new_servers[t][1].addr = AddrAlphaPort
        /\ new_servers[t][1].ping = ParseErrorStatus
        /\ new_servers[t][2].addr = AddrValid
        /\ new_servers[t][2].ping = <<"2", "0">>

\* C9 as stated: a record whose host or port, around the last colon, is
\* empty or absent is marked Invalid Addr, and no probe is dispatched for it.
C9_Original ==
    \A t \in Threads :
        ProbePhaseOver(t) =>
            \A k \in 1..Len(new_servers[t]) :
                LET a == new_servers[t][k].addr
                IN  (~HasColon(a) \/ Len(HostText(a)) = 0 \/ Len(PortText(a)) = 0) =>
                        /\ new_servers[t][k].ping = InvalidAddrStatus
                        /\ k \notin DOMAIN fut[t]

\* C9 amended: no probe is dispatched for a record without a colon, with an
\* empty host or with an empty port; the record is marked Invalid Addr when
\* it has no colon or has an empty host before an integer port, and Parse
\* Error when its port is empty.
C9_MissingHostOrPort ==
    \A t \in Threads :
        /\ \A f \in DOMAIN fut[t] :
              LET a == new_servers[t][f].addr
              IN  HasColon(a) /\ Len(HostText(a)) > 0 /\ Len(PortText(a)) > 0
        /\ ProbePhaseOver(t) =>
              \A k \in 1..Len(new_servers[t]) :
                  LET a == new_servers[t][k].addr
                      ping == new_servers[t][k].ping
                  IN  /\ ~HasColon(a) => ping = InvalidAddrStatus
                      /\ (HasColon(a) /\ Len(PortText(a)) = 0) =>
                            ping = ParseErrorStatus
                      /\ (HasColon(a) /\ Len(HostText(a)) = 0
                            /\ PyInt(PortText(a)).ok) => ping = InvalidAddrStatus

\* C9 witness: a joined cycle over an address with an empty host and one
\* with an empty port, with no probe dispatched
C9_Witness ==
    \E t \in Threads :
        /\ pc[t] = "swap"
        /\ Len(new_servers[t]) = 2
        /\ new_servers[t][1].addr = AddrEmptyHost
        /\ new_servers[t][1].ping = InvalidAddrStatus
        /\ new_servers[t][2].addr = AddrEmptyPort
        /\ new_servers[t][2].ping = ParseErrorStatus
        /\ DOMAIN fut[t] = {}

\* C10 as stated: a probe is dispatched only for a port in 1..65535, and a
\* record whose port is an integer outside that range is not dispatched and
\* ends with a parse-failure status.
C10_Original ==
    \A t \in Threads :
        /\ \A f \in DOMAIN fut[t] : fut[t][f].port \in 1..65535
        /\ ProbePhaseOver(t) =>
              \A k \in 1..Len(new_servers[t]) :
                  LET a == new_servers[t][k].addr
                  IN  (HasColon(a) /\ PyInt(PortText(a)).ok
                          /\ PyInt(PortText(a)).val \notin 1..65535) =>
                          /\ k \notin DOMAIN fut[t]
                          /\ new_servers[t][k].ping
                                \in {ParseErrorStatus, InvalidAddrStatus}

\* C11 as stated: every record that enters the probe phase has a
\* non-empty address; a record with an empty address has been removed from
\* the list of the thread before the submission loop sees it.
C11_Original ==
    \A t \in Threads :
        pc[t] \in {"submit", "collect", "swap", "notify"} =>
            \A k \in 1..Len(new_servers[t]) : Len(new_servers[t][k].addr) > 0

\* a record without its ping status
Unpinged(server) == [server EXCEPT !.ping = Pinging]

\* C12: the catalog a cycle leaves is the sequence of records its fetch
\* returned: the fetch gives the thread a page of the directory; up to the
\* assignment the list keeps its length, its order and every field but
\* ping; the assignment makes the catalog that list and nothing else, with
\* no record of the catalog it replaces.
C12_CatalogReplaced ==
    [][/\ \A t \in Threads :
             /\ (pc[t] = "scrape" /\ pc'[t] = "submit") =>
                   new_servers'[t] \in Pages(directory)
             /\ (pc[t] \in {"submit", "collect", "swap"}
                   /\ pc'[t] \in {"submit", "collect", "swap", "notify"}) =>
                   /\ Len(new_servers'[t]) = Len(new_servers[t])
                   /\ \A k \in 1..Len(new_servers[t]) :
                         Unpinged(new_servers'[t][k]) = Unpinged(new_servers[t][k])
             /\ (pc[t] = "swap" /\ pc'[t] = "notify") => servers' = new_servers[t]
       /\ servers' # servers => \E t \in Threads : pc[t] = "swap" /\ pc'[t] = "notify"
      ]_vars

\* C12 witness: the catalog is the one record of the second fetch, whose
\* address does not parse, while the tree still shows the row of the
\* catalog before it
C12_Witness ==
    \E t \in Threads :
        /\ pc[t] = "notify"
        /\ Len(servers) = 1
        /\ servers[1].addr = AddrNoColon
        /\ servers[1].ping = InvalidAddrStatus
        /\ Len(server_tree) = 1
        /\ server_tree[1].Address = AddrValid

\* the statements of ping_server give the integer the function ping_server
\* gives for what happened to the call
ProbeAgrees ==
    probe.pc = "returned" =>
        probe.ret =
            ping_server(probe.ip, probe.port,
                        IF probe.ev = "response"
                        THEN NetResponse(probe.end_time - probe.start_time)
                        ELSE IF probe.ev = "timeout" THEN NetTimeout
                        ELSE NetOSError)

\* C13: for every dispatched probe, silence until the timeout makes
\* ping_server return the timeout sentinel and a socket or OS error the
\* error sentinel, neither as an exception; a collected probe that ended in
\* the timeout sentinel has Timeout on its record, one that ended in the
\* error sentinel has Error, and the thread stays out of its exception path.
C13_FailureIsStatus ==
    \A t \in Threads :
        \A f \in DOMAIN fut[t] :
            LET r == fut[t][f]
                silent == FutureOutcome(r.ip, r.port, NetTimeout)
                failed == FutureOutcome(r.ip, r.port, NetOSError)
            IN  /\ ~silent.raised /\ ~failed.raised
                /\ r.port \in 0..65535 => PingStatusOf(silent) = TimeoutStatus
                /\ PingStatusOf(failed) = ErrorStatus
                /\ (f \in yielded[t] /\ ~r.outcome.raised /\ r.outcome.value = 999) =>
                      new_servers[t][f].ping = TimeoutStatus
                /\ (f \in yielded[t] /\ ~r.outcome.raised /\ r.outcome.value = -1) =>
                      new_servers[t][f].ping = ErrorStatus
                /\ (r.state = "done" /\ ~r.outcome.raised) =>
                      /\ exc[t] = "none"
                      /\ pc[t] \notin {"unwind", "except"}

\* C13 witness: one probe ran into its timeout, another into a socket
\* error, both are collected and the thread is about to assign the catalog
C13_Witness ==
    \E t \in Threads :
        /\ pc[t] = "swap"
        /\ DOMAIN fut[t] = {1, 2}
        /\ fut[t][1].port = 8
        /\ fut[t][1].outcome = [raised |-> FALSE, value |-> 999]
        /\ new_servers[t][1].ping = TimeoutStatus
        /\ fut[t][2].port = 8
        /\ fut[t][2].outcome = [raised |-> FALSE, value |-> -1]
        /\ new_servers[t][2].ping = ErrorStatus

\* C14 as stated: when a call of ping_server has returned, on a response,
\* on a timeout or on another error, the socket it opened is closed.
C14_Original ==
    probe.pc = "returned" => probe.sock # "open"

\* C15 as stated: a probe that received a response returns the difference
\* of its two clock readings rounded to whole milliseconds, and that value
\* is not negative.
C15_Original ==
    (probe.pc = "returned" /\ probe.ev = "response") =>
        /\ probe.ret = RoundMs(probe.end_time - probe.start_time)
        /\ probe.ret >= 0

\* the ASCII bytes of the command getstatus
GetstatusText == <<"g", "e", "t", "s", "t", "a", "t", "u", "s">>

\* a datagram made of four 0xFF bytes, the command and a newline
IsQueryDatagram(d) ==
    /\ Len(d) = 4 + Len(GetstatusText) + 1
    /\ \A k \in 1..4 : d[k] = 255
    /\ \A k \in 1..Len(GetstatusText) : d[4 + k] = CharCode(GetstatusText[k])
    /\ d[Len(d)] = 10

\* C16 as stated: the datagram a probe sends is 13 bytes long and is made
\* of four 0xFF bytes, the ASCII bytes of getstatus and a newline.
C16_Original ==
    probe.sent # <<>> => Len(probe.sent) = 13 /\ IsQueryDatagram(probe.sent)

\* C16 amended: the datagram a probe sends is 14 bytes long: four 0xFF
\* bytes, the nine ASCII bytes of getstatus and a newline; it goes to the
\* host and port of the call.
C16_QueryDatagram ==
    /\ probe.sent # <<>> =>
          /\ Len(probe.sent) = 14
          /\ IsQueryDatagram(probe.sent)
          /\ probe.dest = <<probe.ip, probe.port>>
    /\ probe.pc \in {"recv", "close"} => probe.sent # <<>>

\* C16 witness: the datagram has gone to port 8 of host h and the call
\* waits in recv
C16_Witness ==
    /\ probe.pc = "recv"
    /\ Len(probe.sent) = 14
    /\ probe.dest = <<(<<"h">>), 8>>

\* the callbacks that report the outcome of a refresh in the status label
StatusCallbacks == {"display_servers", "status_no_servers", "status_error"}

\* how many callbacks of the set S wait in the queue
Scheduled(S) == Cardinality({k \in DOMAIN after_queue : after_queue[k] \in S})

\* C17: a fetch that yields the empty sequence (a request or HTTP error, a
\* page without a table) dispatches no probe and raises nothing in the
\* thread; the catalog it leaves is empty; and, while the window exists,
\* the one message of the refresh is the no-servers status: scheduled once
\* and alone, or already shown.
C17_EmptyFetch ==
    \A t \in Threads :
        /\ (pc[t] \in {"submit", "collect", "swap", "notify"} /\ new_servers[t] = <<>>) =>
              /\ DOMAIN fut[t] = {}
              /\ exc[t] = "none"
        /\ (pc[t] = "notify" /\ new_servers[t] = <<>>) => servers = <<>>
        /\ (pc[t] = "finally" /\ exc[t] = "none" /\ new_servers[t] = <<>>) =>
              /\ servers = <<>>
              /\ window =>
                    /\ Scheduled({"display_servers", "status_error"}) = 0
                    /\ \/ /\ Scheduled({"status_no_servers"}) = 1
                          /\ status_label = "Fetching servers..."
                       \/ /\ Scheduled(StatusCallbacks) = 0
                          /\ status_label = "Error: No servers found"

\* C17 witness: the second fetch of the browser failed; its thread has
\* emptied the catalog and scheduled the message, and the tree still shows
\* a row of the first cycle
C17_Witness ==
    \E t \in Threads :
        /\ pc[t] = "finally"
        /\ exc[t] = "none"
        /\ new_servers[t] = <<>>
        /\ servers = <<>>
        /\ window
        /\ Scheduled({"status_no_servers"}) = 1
        /\ Len(server_tree) > 0

\* the sanitized mod field of the server contains the sanitized form of an
\* alias configured for the mod chosen in mod_filter
HasChosenAlias(server) ==
    \E a \in 1..Len(mod_name_map(mod_filter)) :
        Contains(_sanitize_string(server.mod),
                 _sanitize_string(mod_name_map(mod_filter)[a]))

\* the records the filter is to return, in catalog order
ExpectedFiltered ==
    IF mod_filter = "All Mods" THEN servers ELSE SelectSeq(servers, HasChosenAlias)

\* C18: the rows of the tree are the rows of every catalog record under the
\* all-mods selector, and otherwise of exactly the records whose sanitized
\* mod field contains the sanitized form of an alias of the chosen mod; over
\* the mod fields Movie Battles II, mb2, OpenJK and basejk the selector
\* Movie Battles II keeps the first two records and no other.
C18_FilterExact ==
    /\ Len(server_tree) = Len(ExpectedFiltered)
    /\ {server_tree[r].iid : r \in 1..Len(server_tree)} = 0..(Len(ExpectedFiltered) - 1)
    /\ \A r \in 1..Len(server_tree) :
          server_tree[r] =
              TreeRow(server_tree[r].iid, ExpectedFiltered[server_tree[r].iid + 1])
    /\ (servers = AliasCatalog /\ mod_filter = "Movie Battles II") =>
          {<<server_tree[r].Name, server_tree[r].Mod>> : r \in 1..Len(server_tree)}
              = {<<(<<"A">>), ModMovieBattles>>, <<(<<"B">>), ModMb2>>}

\* C18 witness: the catalog of the four mod fields under the selector Movie
\* Battles II, its two rows put in name order by a click on the heading
C18_Witness ==
    /\ servers = AliasCatalog
    /\ mod_filter = "Movie Battles II"
    /\ Len(server_tree) = 2
    /\ server_tree[1].Name = <<"A">>
    /\ server_tree[2].Name = <<"B">>

\* the strings display_servers sanitizes: the mod fields of the catalog and
\* the aliases of every selector
SanitizedInputs ==
    {servers[k].mod : k \in 1..Len(servers)}
        \cup UNION {{mod_name_map(f)[a] : a \in 1..Len(mod_name_map(f))} : f \in MOD_OPTIONS}

\* C19: sanitizing a sanitized string changes nothing:
\* _sanitize_string(_sanitize_string(x)) = _sanitize_string(x) for every mod
\* field of the catalog and every alias, among them strings with mixed
\* case, punctuation, no-break and em spaces, the remnant of an HTML entity
\* and runs of spaces.
C19_SanitizeIdempotent ==
    \A x \in SanitizedInputs :
        _sanitize_string(_sanitize_string(x)) = _sanitize_string(x)

\* C19 witness: the catalog holds the mod field with the entity remnant
\* and the two wide spaces, which sanitizing changes, and its row is shown
C19_Witness ==
    /\ mod_filter = "All Mods"
    /\ Len(server_tree) = Len(servers)
    /\ \E k \in 1..Len(servers) : servers[k].mod = ModEntity
    /\ _sanitize_string(ModEntity) =
          <<"m", "o", "v", "i", "e", " ", "b", "a", "t", "t", "l", "e", "s",
            "n", "b", "s", "p", " ", "2">>

\* the leading run of digits of a text
RECURSIVE LeadingDigits(_)
LeadingDigits(s) ==
    IF Len(s) = 0 \/ ~IsDigit(s[1]) THEN <<>>
    ELSE <<s[1]>> \o LeadingDigits(Tail(s))

\* cell a sorts strictly before cell b when the key of a cell is the
\* integer of its leading digit run (a cell without one sorts last)
LeadingRunLess(a, b) ==
    /\ Len(LeadingDigits(a)) > 0
    /\ \/ Len(LeadingDigits(b)) = 0
       \/ DigitsValue(LeadingDigits(a), 0) < DigitsValue(LeadingDigits(b), 0)

\* C20 as stated: a click that sorts Ping or Players in ascending order
\* leaves the rows in the order of the integers of the leading digit runs
\* of their cells, so that a Players cell 10/8 comes after 9/32.
C20_Original ==
    [][\A col \in {"Ping", "Players"} :
          (heading[col] = FALSE /\ heading'[col] = TRUE) =>
              \A i, j \in 1..Len(server_tree') :
                  i < j => ~LeadingRunLess(Cell(server_tree'[j], col),
                                           Cell(server_tree'[i], col))
      ]_vars


\* whether a cell holds at least one digit
HasDigits(value) == Len(DigitsOf(value)) > 0

\* the position of the row with an iid in a list of rows
RowPosition(rows, iid) == CHOOSE k \in 1..Len(rows) : rows[k].iid = iid

\* rows after is rows before in ascending order of a numeric column: the
\* same rows, the cells with digits before the cells without, the integer
\* cells in increasing order, and rows of equal keys in their prior order
SortedAscending(before, after, col) ==
    /\ Len(after) = Len(before)
    /\ {after[i] : i \in 1..Len(after)} = {before[i] : i \in 1..Len(before)}
    /\ \A i, j \in 1..Len(after) :
          i < j =>
             LET a == Cell(after[i], col)
                 b == Cell(after[j], col)
             IN  /\ HasDigits(b) => HasDigits(a)
                 /\ (NumericStatus(a) /\ NumericStatus(b))
                       => PyInt(a).val <= PyInt(b).val
                 /\ (NumericKey(a) = NumericKey(b))
                       => RowPosition(before, after[i].iid)
                             < RowPosition(before, after[j].iid)

C22_ViewLeavesCatalog == [][servers' = servers]_vars

\* the alias catalog is whole and in its order while the view shows a
\* filtered part of it, sorted by name
C22_Witness ==
    /\ servers = AliasCatalog
    /\ mod_filter = "OpenJK"
    /\ heading["Name"]
    /\ Len(server_tree) > 0
    /\ Len(server_tree) < Len(servers)


\* no refresh thread is running and every scheduled callback has run
Quiescent ==
    /\ window
    /\ after_queue = <<>>
    /\ \A t \in Threads : pc[t] = "idle"

\* the row shows the fields of a record of the list
RowOfCatalog(row, list) ==
    \E k \in 1..Len(list) : \E i \in 0..Len(list) : row = TreeRow(i, list[k])

\* C29 as stated: once a cycle has completed and its callbacks have run,
\* every row of the server view is the row of a record of the current
\* catalog, also when that catalog is empty.
C29_Original ==
    Quiescent => \A r \in 1..Len(server_tree) : RowOfCatalog(server_tree[r], servers)

\* C30 as stated: a probe that received a response is recorded as the text
\* of its measured latency, never as Timeout or Error.
C30_Original ==
    (probe.pc = "returned" /\ probe.ev = "response") =>
        LET status == PingStatusOf([raised |-> FALSE, value |-> probe.ret])
        IN  /\ status = IntToStr(RoundMs(probe.end_time - probe.start_time))
            /\ status \notin {TimeoutStatus, ErrorStatus}


\* C28: whenever a refresh cycle has disabled the Refresh and Filter
\* buttons, each of them is eventually enabled again unless the browser
\* window is destroyed, whether the cycle ends with servers displayed, with
\* an empty result or with an exception
C28_ButtonsReenabled ==
    /\ (refresh_button = "disabled") ~> (~window \/ refresh_button = "normal")
    /\ (filter_button = "disabled") ~> (~window \/ filter_button = "normal")

\* a cycle that ended in its exception handler has run its callbacks and
\* both buttons are enabled again
C28_Witness ==
    /\ Quiescent
    /\ status_label = "Error: exception"
    /\ refresh_button = "normal"
    /\ filter_button = "normal"


\* the selected address is the addr of a record of the list
SelectionInCatalog(sel, list) ==
    \E k \in 1..Len(list) : sel.kind = "str" /\ list[k].addr = sel.text

\* C23: whatever rows were selected and whatever cycles have replaced the
\* catalog, a call of join_selected_server goes on only with a record of
\* the current catalog whose addr is the selected address; without one it
\* shows an error, returns and launches nothing; and a game is launched
\* only by a call that went on, to the address of the record it found
C23_JoinNeedsCatalogRecord ==
    [][/\ (join.pc = "idle" /\ join'.pc = "status") =>
             /\ SelectionInCatalog(selected_server_addr, servers)
             /\ \E k \in 1..Len(servers) :
                   /\ join'.found = <<servers[k]>>
                   /\ servers[k].addr = selected_server_addr.text
       /\ (join.pc = "idle" /\ join' # join
              /\ ~SelectionInCatalog(selected_server_addr, servers)) =>
             /\ join'.pc = "box"
             /\ join'.msg \in {"Please select a server to join.",
                               "Could not find selected server data."}
             /\ join'.launched = join.launched
       /\ (join'.launched # join.launched) =>
             /\ join.pc = "launch"
             /\ join'.launched = <<join.found[1].addr>>]_vars

\* a row was selected, a later cycle left a catalog without that address
\* while the row is still shown, and the join reported that it found no
\* server data and launched nothing
C23_Witness ==
    /\ selected_server_addr = [kind |-> "str", text |-> AddrValid]
    /\ ~SelectionInCatalog(selected_server_addr, servers)
    /\ \E r \in 1..Len(server_tree) : server_tree[r].Address = AddrValid
    /\ join.msg = "Could not find selected server data."
    /\ join.pc = "box"
    /\ join.launched = <<>>

\* the statuses and choices with which the claim lets a join go on
Proceeds(status, choice) ==
    \/ status \in {"green", "not_found"}
    \/ status = "red" /\ choice = "join"

\* C27: a join goes past the content check exactly when the status is green
\* or not_found, or is red and the user chose Join Anyway; with
\* not_downloaded it returns whatever the user presses, and with red it
\* returns on Update and on Cancel
C27_ContentGate ==
    [][(join.pc = "chosen" /\ join'.pc # "chosen") =>
          /\ join'.pc \in {"launch", "idle"}
          /\ join'.pc = "launch" <=> Proceeds(join.status, join.choice)]_vars

\* a join of a server with outdated content has gone past the check after
\* Join Anyway
C27_Witness ==
    /\ join.pc = "launch"
    /\ join.status = "red"
    /\ join.choice = "join"


\* C24: whatever 403 responses the release-list and download requests get,
\* and however many handle_rate_limit callbacks are queued or run while
\* the popup is open, the body of handle_rate_limit (the popup, then the
\* quit) runs at most once: at most one rate-limit popup is ever opened
C24_RateLimitOnce ==
    /\ rate_limit_runs <= 1
    /\ Cardinality({k \in 1..Len(popups) : popups[k] = "rate_limit"}) <= 1

\* the rate-limit popup is open, the flag is set, and a further
\* handle_rate_limit callback of another 403 is queued behind it
C24_Witness ==
    /\ rate_limit_runs = 1
    /\ is_rate_limited
    /\ popups # <<>>
    /\ popups[Len(popups)] = "rate_limit"
    /\ \E k \in 1..Len(master_after) : master_after[k].cb = "handle_rate_limit"

\* C25 as stated: after fetch_and_populate_repositories has run, in every
\* outcome of the two fetches, the repository listbox eventually holds the
\* resulting repositories list.
C25_Original ==
    <>(manager_pc.startup = "done" /\ listbox_repos = repositories)

\* the tag belongs to the repository
TagOf(tag, repo) == tag \in Range(Releases(repo))

\* C26 as stated: whenever a repository is selected and the version
\* dropdown offers releases, the releases stored in available_releases and
\* the ones offered are those of the selected repository.
C26_Original ==
    (selected_repo_url # "None" /\ release_version_combo.state = "readonly") =>
        /\ \A tag \in available_releases : TagOf(tag, selected_repo_url)
        /\ \A tag \in Range(release_version_combo.values) :
              TagOf(tag, selected_repo_url)

====
